---- MODULE Spec2Model ----
(***************************************************************************)
(* EcoLearn backend: the relational tables of the users, challenges,       *)
(* content and gamification apps, the REST handlers that write them and    *)
(* the post_save signal handlers that run in-line with every write.        *)
(*                                                                         *)
(* A handler is an operator from a database record d to a database record; *)
(* d.exc carries a Python exception that has been raised and not caught.   *)
(* Every save() commits on its own (autocommit); only the blocks Django    *)
(* wraps in transaction.atomic (get_or_create) roll back on an exception.  *)
(***************************************************************************)
EXTENDS Integers, Sequences, FiniteSets, Bags, TLC

VARIABLES
    users,              \* rows of the users table (ids)
    lastLogin,          \* the users whose last_login column is set
    profiles,           \* rows of user_profiles
    badges,             \* rows of gamification_badge
    userBadges,         \* rows of gamification_user_badge (a bag of rows)
    ledger,             \* rows of gamification_point_transaction
    achievements,       \* rows of gamification_achievement
    challenges,         \* rows of challenges_challenge
    submissions,        \* rows of challenges_submission
    favorites,          \* rows of challenges_challengefavorite
    lessons,            \* rows of content_lesson
    quizzes,            \* rows of content_quiz
    lessonCompletions,  \* rows of content_lessoncompletion
    quizAttempts,       \* rows of content_quizattempt
    leaderboards,       \* rows of gamification_leaderboard
    cache,              \* django.core.cache: the set of (key, data) entries
    resp                \* the response to the last request

vars == <<users, lastLogin, profiles, badges, userBadges, ledger, achievements, challenges,
          submissions, favorites, lessons, quizzes, lessonCompletions, quizAttempts,
          leaderboards, cache, resp>>

(***************************************************************************)
(* Bounds of the model.                                                    *)
(***************************************************************************)
MaxLedger == 2
MaxBadges == 1
MaxUserBadges == 3
MaxChallenges == 1
MaxSubmissions == 2
MaxContent == 1

(***************************************************************************)
(* Users.  The accounts are fixed; role, is_staff and is_superuser are     *)
(* columns no modelled handler writes.                                     *)
(***************************************************************************)
None == "None"
Anonymous == "anon"
Students == {"s1", "s2"}
Teachers == {"t1", "t2"}
Admins == {"a1"}
AllUsers == Students \cup Teachers \cup Admins

role(u) == IF u \in Students THEN "student"
           ELSE IF u \in Teachers THEN "teacher"
           ELSE IF u \in Admins THEN "admin" ELSE None
is_staff(u) == u \in Admins
is_superuser(u) == u \in Admins
is_authenticated(u) == u # Anonymous

(***************************************************************************)
(* Generic helpers.                                                        *)
(***************************************************************************)
MinOf(S) == CHOOSE x \in S : \A y \in S : x <= y
FreshId(rows) ==
    MinOf({i \in 1..(Cardinality(rows) + 1) : \A r \in rows : r.id # i})

RECURSIVE SumPoints(_)
SumPoints(rows) ==
    IF rows = {} THEN 0
    ELSE LET r == CHOOSE x \in rows : TRUE
         IN r.points + SumPoints(rows \ {r})

\* F applied to the value of x, with x evaluated once.
Bind(x, F(_)) == CHOOSE y \in {F(v) : v \in {x}} : TRUE

Ok(d) == d.exc = "none"
Raise(d, e) == [d EXCEPT !.exc = e]

\* The database as one record; exc = "none" when no exception is in flight.
DB == [users |-> users, lastLogin |-> lastLogin, profiles |-> profiles, badges |-> badges,
       userBadges |-> userBadges, ledger |-> ledger,
       achievements |-> achievements, challenges |-> challenges,
       submissions |-> submissions, favorites |-> favorites,
       lessons |-> lessons, quizzes |-> quizzes,
       lessonCompletions |-> lessonCompletions, quizAttempts |-> quizAttempts,
       leaderboards |-> leaderboards, cache |-> cache,
       exc |-> "none"]

\* Autocommit: every table write made before an exception stays.
Commit(d) ==
    /\ users' = d.users
    /\ lastLogin' = d.lastLogin
    /\ profiles' = d.profiles
    /\ badges' = d.badges
    /\ userBadges' = d.userBadges
    /\ ledger' = d.ledger
    /\ achievements' = d.achievements
    /\ challenges' = d.challenges
    /\ submissions' = d.submissions
    /\ favorites' = d.favorites
    /\ lessons' = d.lessons
    /\ quizzes' = d.quizzes
    /\ lessonCompletions' = d.lessonCompletions
    /\ quizAttempts' = d.quizAttempts
    /\ leaderboards' = d.leaderboards
    /\ cache' = d.cache

WithinBounds(d) ==
    /\ Cardinality(d.ledger) <= MaxLedger
    /\ Cardinality(d.badges) <= MaxBadges
    /\ BagCardinality(d.userBadges) <= MaxUserBadges
    /\ Cardinality(d.challenges) <= MaxChallenges
    /\ Cardinality(d.submissions) <= MaxSubmissions
    /\ Cardinality(d.lessons) <= MaxContent
    /\ Cardinality(d.quizzes) <= MaxContent

Response(op, status, body) == [op |-> op, status |-> status, body |-> body]

(***************************************************************************)
(* Primary keys.  PointTransaction, Achievement, Badge and UserBadge       *)
(* declare id = UUIDField(primary_key=True, default=uuid.uuid4): the       *)
(* default is evaluated when the instance is constructed, so the pk is set *)
(* before save() runs.                                                     *)
(***************************************************************************)
UUIDFieldDefault == "uuid4"
pk_at_construction == UUIDFieldDefault

(***************************************************************************)
(* Badge catalogue: the (points_required, criteria) pairs an admin can     *)
(* submit.  Every criteria key is one BadgeCreateSerializer accepts.       *)
(***************************************************************************)
valid_keys == {"lessons_completed", "quizzes_completed", "challenges_solved",
               "streak_days", "difficulty_challenges", "perfect_quizzes",
               "fast_solutions"}

NoCriteria == [k \in {} |-> 0]
BadgeCatalog ==
    [first_steps     |-> [points_required |-> 0,
                          criteria |-> [k \in {"lessons_completed"} |-> 1]],
     newcomer        |-> [points_required |-> 0, criteria |-> NoCriteria],
     perfectionist   |-> [points_required |-> 0,
                          criteria |-> [k \in {"perfect_quizzes"} |-> 1]],
     point_collector |-> [points_required |-> 10, criteria |-> NoCriteria],
     problem_solver  |-> [points_required |-> 0,
                          criteria |-> [k \in {"challenges_solved"} |-> 1]],
     quiz_master     |-> [points_required |-> 0,
                          criteria |-> [k \in {"quizzes_completed"} |-> 1]],
     streak_warrior  |-> [points_required |-> 0,
                          criteria |-> [k \in {"streak_days"} |-> 1]],
     trailblazer     |-> [points_required |-> 0,
                          criteria |-> [k \in {"lessons_viewed"} |-> 1]]]
BadgeKeys == DOMAIN BadgeCatalog
\* Badge.Meta.ordering = ['rarity', 'name']; every catalogue badge is 'common'.
BadgeOrder == <<"first_steps", "newcomer", "perfectionist", "point_collector",
                "problem_solver", "quiz_master", "streak_warrior",
                "trailblazer">>

points_required(b) == BadgeCatalog[b.key].points_required
criteria(b) == BadgeCatalog[b.key].criteria

\* BadgeCreateSerializer.validate_criteria
validate_criteria(value) == \A k \in DOMAIN value : k \in valid_keys

(***************************************************************************)
(* Reverse accessors and counters read by Badge.check_criteria.            *)
(***************************************************************************)
HasProfile(d, u) == \E p \in d.profiles : p.user = u
ProfileOf(d, u) == CHOOSE p \in d.profiles : p.user = u
total_points(d, u) == ProfileOf(d, u).total_points

lesson_completions_count(d, u) ==
    Cardinality({c \in d.lessonCompletions : c.user = u})
AcceptedSubmissions(d, u) ==
    {s \in d.submissions : s.user = u /\ s.status = "accepted"}
challenges_solved_count(d, u) ==
    Cardinality({s.challenge : s \in AcceptedSubmissions(d, u)})
ChallengeOf(d, s) == CHOOSE c \in d.challenges : c.id = s.challenge
difficulty_solved_count(d, u, difficulty) ==
    Cardinality({s.challenge : s \in
        {x \in AcceptedSubmissions(d, u) :
            ChallengeOf(d, x).difficulty_level = difficulty}})
perfect_quizzes_count(d, u) ==
    Cardinality({a \in d.quizAttempts : a.user = u /\ a.score >= 100})

\* Badge.check_criteria: "True", "False", or the exception it raises.
\* QuizAttempt has no is_completed column (FieldError) and UserProfile has
\* no current_streak attribute (AttributeError); 'perfect_quizzes' and
\* 'fast_solutions' are never looked at.
check_criteria(d, b, u) ==
    LET c == criteria(b)
    IN IF ~b.is_active THEN "False"
       ELSE IF ~HasProfile(d, u) THEN "RelatedObjectDoesNotExist"
       ELSE IF total_points(d, u) < points_required(b) THEN "False"
       ELSE IF "lessons_completed" \in DOMAIN c
               /\ lesson_completions_count(d, u) < c["lessons_completed"]
            THEN "False"
       ELSE IF "quizzes_completed" \in DOMAIN c THEN "FieldError"
       ELSE IF "challenges_solved" \in DOMAIN c
               /\ challenges_solved_count(d, u) < c["challenges_solved"]
            THEN "False"
       ELSE IF "streak_days" \in DOMAIN c THEN "AttributeError"
       ELSE IF "difficulty_challenges" \in DOMAIN c
               /\ \E difficulty \in DOMAIN c["difficulty_challenges"] :
                      difficulty_solved_count(d, u, difficulty)
                          < c["difficulty_challenges"][difficulty]
            THEN "False"
       ELSE "True"

(***************************************************************************)
(* Model save() methods and the post_save receivers of the gamification    *)
(* app, in the order the module connects them.                             *)
(***************************************************************************)
milestones == <<100, 250, 500, 1000, 2500, 5000, 10000, 25000, 50000, 100000>>

RECURSIVE PointTransaction_create(_, _, _, _, _)
RECURSIVE Achievement_create(_, _, _, _, _)
RECURSIVE award_to_user(_, _, _)
RECURSIVE MilestoneLoop(_, _, _, _)
RECURSIVE BadgeLoop(_, _, _)

\* The rows of gamification_user_badge with this user and badge.
UserBadgeRow(u, key) == [user |-> u, badge |-> key]
\* The lookup that finds no row, whatever the table holds.
UserBadge_exists_never(d, u, key) == FALSE

UserBadge_exists(d, u, key) == CopiesIn(UserBadgeRow(u, key), d.userBadges) > 0

\* The table without its unique index.
UserBadge_unique_dropped(d, u, key) == TRUE

\* UserBadge.Meta.unique_together = ['user', 'badge']
UserBadge_unique(d, u, key) == ~UserBadge_exists(d, u, key)

\* UserBadge.objects.create: INSERT, or IntegrityError on the unique index.
\* post_save: badge_earned_notification does nothing.
UserBadge_create(d, u, key) ==
    IF ~UserBadge_unique(d, u, key) THEN Raise(d, "IntegrityError")
    ELSE [d EXCEPT !.userBadges = @ (+) SetToBag({UserBadgeRow(u, key)})]

\* Badge.award_to_user
award_to_user(d, b, u) ==
    LET exists == UserBadge_exists(d, u, b.key)
        d1 == UserBadge_create(d, u, b.key)
    IN IF exists THEN d
       ELSE IF ~Ok(d1) THEN d1
       ELSE PointTransaction_create(d1, u, points_required(b) \div 10,
                                    "badge_earned", b.key)

\* Achievement.Meta.unique_together = ['user', 'achievement_type', 'reference_id']
Achievement_unique(d, u, atype, ref) ==
    ~\E a \in d.achievements : a.user = u /\ a.atype = atype /\ a.ref = ref

\* Achievement.objects.create -> Achievement.save
Achievement_create(d, u, atype, points_awarded, ref) ==
    LET is_new == pk_at_construction = None
        row == [id |-> FreshId(d.achievements), user |-> u, atype |-> atype,
                ref |-> ref, points_awarded |-> points_awarded]
        d1 == [d EXCEPT !.achievements = @ \cup {row}]
    IN IF ~Achievement_unique(d, u, atype, ref) THEN Raise(d, "IntegrityError")
       ELSE IF is_new /\ points_awarded > 0
            THEN PointTransaction_create(d1, u, points_awarded, "badge_earned",
                                         ToString(row.id))
       ELSE d1

\* signals.check_point_milestones: the loop over the milestone list, with the
\* total read once before the loop.
MilestoneLoop(d, ms, u, total) ==
    IF ms = <<>> \/ ~Ok(d) THEN d
    ELSE LET m == Head(ms)
         IN IF total >= m
               /\ Achievement_unique(d, u, "points_milestone", ToString(m))
            THEN MilestoneLoop(
                     Achievement_create(d, u, "points_milestone", m \div 10,
                                        ToString(m)),
                     Tail(ms), u, total)
            ELSE MilestoneLoop(d, Tail(ms), u, total)

check_point_milestones(d, row, created) ==
    IF created /\ row.points > 0
    THEN IF ~HasProfile(d, row.user) THEN Raise(d, "RelatedObjectDoesNotExist")
         ELSE MilestoneLoop(d, milestones, row.user, total_points(d, row.user))
    ELSE d

\* signals.check_badge_eligibility: the loop over the badges fetched before it.
BadgeLoop(d, bs, u) ==
    IF bs = <<>> \/ ~Ok(d) THEN d
    ELSE LET b == Head(bs)
             c == check_criteria(d, b, u)
         IN IF c = "True" THEN BadgeLoop(award_to_user(d, b, u), Tail(bs), u)
            ELSE IF c = "False" THEN BadgeLoop(d, Tail(bs), u)
            ELSE Raise(d, c)

BadgeRow(d, key) == CHOOSE b \in d.badges : b.key = key
available_badges(d, u) ==
    LET keys == SelectSeq(BadgeOrder,
                    LAMBDA k : /\ \E b \in d.badges : b.key = k /\ b.is_active
                               /\ ~UserBadge_exists(d, u, k))
    IN [i \in 1..Len(keys) |-> BadgeRow(d, keys[i])]

check_badge_eligibility(d, row, created) ==
    IF created /\ row.points > 0
    THEN BadgeLoop(d, available_badges(d, row.user), row.user)
    ELSE d

\* django.core.cache.  cache.get answers None for a key that is absent; the
\* only reader tests the answer for truth, and None and the empty list are
\* both false, so a miss is answered with the empty list here.
cache_get(d, key) ==
    IF \E e \in d.cache : e.key = key
    THEN (CHOOSE e \in d.cache : e.key = key).data
    ELSE <<>>
cache_delete(d, key) == [d EXCEPT !.cache = {e \in @ : e.key # key}]
cache_set(d, key, data) ==
    [d EXCEPT !.cache = {e \in @ : e.key # key} \cup {[key |-> key, data |-> data]}]

\* The key Leaderboard.get_leaderboard_data and refresh_cache use.
leaderboard_cache_key(id) == "leaderboard:" \o ToString(id)

\* signals.update_leaderboard_cache: the key of every active leaderboard is
\* deleted.
update_leaderboard_cache(d, row, created) ==
    IF created
    THEN [d EXCEPT !.cache =
             {e \in @ : \A lb \in d.leaderboards :
                            lb.is_active => e.key # leaderboard_cache_key(lb.id)}]
    ELSE d

\* post_save receivers of PointTransaction, in the order they are connected.
PointTransaction_post_save(d, row, created) ==
    LET d1 == check_point_milestones(d, row, created)
        d2 == IF Ok(d1) THEN update_leaderboard_cache(d1, row, created) ELSE d1
    IN IF Ok(d2) THEN check_badge_eligibility(d2, row, created) ELSE d2

\* PointTransaction.save:
\*   is_new = self.pk is None; super().save(); if is_new: update the total
\* UserProfile defines no update_total_points, so the is_new branch raises.
PointTransaction_is_new == pk_at_construction = None

PointTransaction_save(d, row, adding) ==
    LET d1 == [d EXCEPT !.ledger = {r \in @ : r.id # row.id} \cup {row}]
        d2 == PointTransaction_post_save(d1, row, adding)
    IN IF ~Ok(d2) THEN d2
       ELSE IF PointTransaction_is_new THEN Raise(d2, "AttributeError")
       ELSE d2

\* PointTransaction.objects.create
PointTransaction_create(d, u, points, ttype, ref) ==
    PointTransaction_save(d, [id |-> FreshId(d.ledger), user |-> u,
                              points |-> points, transaction_type |-> ttype,
                              reference_id |-> ref], TRUE)

(***************************************************************************)
(* Project settings, as the specification describes the deployment:        *)
(* ATOMIC_REQUESTS at Django's default, and JWT bearer authentication,     *)
(* whose authenticator supplies a WWW-Authenticate header.                 *)
(***************************************************************************)
ATOMIC_REQUESTS == FALSE
HasAuthenticateHeader == TRUE

\* INSTALLED_APPS lists the project's apps in the order config/urls.py
\* includes them.
INSTALLED_APPS == <<"users", "content", "challenges", "gamification">>

\* APIView.permission_denied: NotAuthenticated is answered with 401 when the
\* authenticator supplies a WWW-Authenticate header, otherwise with 403.
NotAuthenticated == IF HasAuthenticateHeader THEN 401 ELSE 403

\* What the request leaves in the database, and the status DRF answers with.
Finish(d0, d) ==
    IF ~Ok(d) /\ ATOMIC_REQUESTS THEN [d0 EXCEPT !.cache = d.cache] ELSE d
StatusOf(d, success) == IF Ok(d) THEN success ELSE 500

tables == <<users, lastLogin, profiles, badges, userBadges, ledger, achievements,
            challenges, submissions, favorites, lessons, quizzes, lessonCompletions,
            quizAttempts, leaderboards, cache>>

Reject(op, req, status) ==
    /\ UNCHANGED tables
    /\ resp' = Response(op, status, {})

Answer(op, req, result, success) ==
    \E d \in {result} :
        /\ WithinBounds(d)
        /\ Commit(Finish(DB, d))
        /\ resp' = Response(op, StatusOf(d, success), {})

(***************************************************************************)
(* /api/v1/gamification/point-transactions/                                *)
(***************************************************************************)
PointInputs == {-5, 5, 10001}
TypeInputs == {"admin_adjustment", "daily_login"}
MaxPointValue == 10000

\* The queryset without the per-user filter.
PointTransaction_get_queryset_unfiltered(d, req) == d.ledger

\* PointTransactionViewSet.get_queryset
PointTransaction_get_queryset(d, req) ==
    IF is_staff(req) THEN d.ledger ELSE {r \in d.ledger : r.user = req}

\* PointTransaction.points validators (MinValueValidator, MaxValueValidator)
points_field_valid(points) == -MaxPointValue <= points /\ points <= MaxPointValue

\* PointTransactionCreateSerializer.validate_points and .validate
validate_points(points) ==
    (IF points < 0 THEN -points ELSE points) <= MaxPointValue
validate_any_type(points, ttype) == TRUE
validate(points, ttype) ==
    points < 0 => ttype \in {"penalty", "admin_adjustment"}

\* The serializer get_serializer_class chooses for a write, as a validity test.
write_is_valid(req, points, ttype) ==
    IF is_staff(req)
    THEN points_field_valid(points) /\ validate_points(points)
         /\ validate(points, ttype)
    ELSE points_field_valid(points)

\* POST: create, then perform_create.  rest_framework.permissions has no
\* PermissionDenied, so the non-staff branch raises AttributeError.
CreatePointTransaction(req, u, points, ttype) ==
    LET op == "point_transaction_create"
    IN IF ~is_authenticated(req) THEN Reject(op, req, NotAuthenticated)
       ELSE IF ~write_is_valid(req, points, ttype) THEN Reject(op, req, 400)
       ELSE IF ~is_staff(req) THEN Reject(op, req, 500)
       ELSE Answer(op, req, PointTransaction_create(DB, u, points, ttype, ""), 201)

\* PUT/PATCH: UpdateModelMixin.update.  'user' is read-only in
\* PointTransactionSerializer and writable in PointTransactionCreateSerializer.
UpdatePointTransaction(req, id, u, points, ttype) ==
    LET op == "point_transaction_update"
        qs == PointTransaction_get_queryset(DB, req)
    IN IF ~is_authenticated(req) THEN Reject(op, req, NotAuthenticated)
       ELSE IF ~\E r \in qs : r.id = id THEN Reject(op, req, 404)
       ELSE IF ~write_is_valid(req, points, ttype) THEN Reject(op, req, 400)
       ELSE LET old == CHOOSE r \in qs : r.id = id
                new == [old EXCEPT !.points = points,
                                   !.transaction_type = ttype,
                                   !.user = IF is_staff(req) THEN u ELSE @]
            IN Answer(op, req, PointTransaction_save(DB, new, FALSE), 200)

\* DELETE: DestroyModelMixin.destroy
DeletePointTransaction(req, id) ==
    LET op == "point_transaction_delete"
        qs == PointTransaction_get_queryset(DB, req)
    IN IF ~is_authenticated(req) THEN Reject(op, req, NotAuthenticated)
       ELSE IF ~\E r \in qs : r.id = id THEN Reject(op, req, 404)
       ELSE Answer(op, req, [DB EXCEPT !.ledger = {r \in @ : r.id # id}], 204)

\* GET list
ListPointTransactions(req) ==
    LET op == "point_transaction_list"
    IN IF ~is_authenticated(req) THEN Reject(op, req, NotAuthenticated)
       ELSE /\ UNCHANGED tables
            /\ resp' = Response(op, 200, PointTransaction_get_queryset(DB, req))

\* GET detail
RetrievePointTransaction(req, id) ==
    LET op == "point_transaction_retrieve"
        qs == PointTransaction_get_queryset(DB, req)
    IN IF ~is_authenticated(req) THEN Reject(op, req, NotAuthenticated)
       ELSE IF ~\E r \in qs : r.id = id THEN Reject(op, req, 404)
       ELSE /\ UNCHANGED tables
            /\ resp' = Response(op, 200, {r \in qs : r.id = id})

(***************************************************************************)
(* /api/v1/gamification/badges/                                            *)
(***************************************************************************)
SAFE_METHODS == {"GET", "HEAD", "OPTIONS"}

\* users.permissions.IsAdminOrReadOnly.has_permission
IsAdminOrReadOnly_has_permission(req, method) ==
    IF method \in SAFE_METHODS THEN is_authenticated(req)
    ELSE is_authenticated(req) /\ (role(req) = "admin" \/ is_superuser(req))

\* APIView.permission_denied
permission_denied(req) == IF is_authenticated(req) THEN 403 ELSE NotAuthenticated

\* POST /badges/ with BadgeCreateSerializer; Badge.name is unique.
CreateBadge(req, key, active) ==
    LET op == "badge_create"
    IN IF ~IsAdminOrReadOnly_has_permission(req, "POST")
       THEN Reject(op, req, permission_denied(req))
       ELSE IF ~validate_criteria(BadgeCatalog[key].criteria)
               \/ \E b \in badges : b.key = key
            THEN Reject(op, req, 400)
       ELSE Answer(op, req,
                [DB EXCEPT !.badges = @ \cup {[key |-> key, is_active |-> active]}],
                201)

\* PATCH /badges/{id}/ {"is_active": ...}
UpdateBadge(req, key, active) ==
    LET op == "badge_update"
    IN IF ~IsAdminOrReadOnly_has_permission(req, "PATCH")
       THEN Reject(op, req, permission_denied(req))
       ELSE IF ~\E b \in badges : b.key = key THEN Reject(op, req, 404)
       ELSE Answer(op, req,
                [DB EXCEPT !.badges = {b \in @ : b.key # key}
                                      \cup {[key |-> key, is_active |-> active]}],
                200)

\* POST /badges/{id}/award/ : BadgeViewSet.award
AwardBadge(req, key, user_id) ==
    LET op == "badge_award"
    IN IF ~IsAdminOrReadOnly_has_permission(req, "POST")
       THEN Reject(op, req, permission_denied(req))
       ELSE IF ~is_staff(req) THEN Reject(op, req, 403)
       ELSE IF ~\E b \in badges : b.key = key THEN Reject(op, req, 404)
       ELSE IF user_id = None THEN Reject(op, req, 400)
       ELSE IF user_id \notin users THEN Reject(op, req, 404)
       ELSE IF UserBadge_exists(DB, user_id, key) THEN Reject(op, req, 400)
       ELSE Answer(op, req, UserBadge_create(DB, user_id, key), 201)

\* UserBadge.objects.create(user=..., badge=...) called directly, as the
\* model tests do; the answer is the exception, if any.
UserBadgeObjectsCreate(u, key) ==
    /\ u \in users
    /\ \E b \in badges : b.key = key
    /\ \E d \in {UserBadge_create(DB, u, key)} :
           /\ WithinBounds(d)
           /\ Commit(Finish(DB, d))
           /\ resp' = Response("UserBadge.objects.create", d.exc, {})

\* badge.award_to_user(user) called directly.
AwardToUser(u, key) ==
    /\ u \in users
    /\ \E b \in badges : b.key = key
    /\ \E d \in {award_to_user(DB, BadgeRow(DB, key), u)} :
           /\ WithinBounds(d)
           /\ Commit(Finish(DB, d))
           /\ resp' = Response("Badge.award_to_user", d.exc, {})

(***************************************************************************)
(* The gamification specification: accounts and their profiles exist, and  *)
(* learner s1 has an accepted submission to a published challenge.         *)
(***************************************************************************)
GamUsers == {"s1", "s2", "a1"}
Learners == {"s1", "s2"}
NoResponse == Response("none", 0, {})

UserNo == [s1 |-> 1, s2 |-> 2, t1 |-> 3, t2 |-> 4, a1 |-> 5]
NewProfile(id, u) ==
    [id |-> id, user |-> u, total_points |-> 0, streak_days |-> 0]
InitProfiles(us) == {NewProfile(UserNo[u], u) : u \in us}
SolvedChallenge ==
    [id |-> 1, author |-> "t1", status |-> "published",
     difficulty_level |-> "beginner"]
SolvedSubmission ==
    [id |-> 1, user |-> "s1", challenge |-> 1, status |-> "accepted", score |-> 100]

Init ==
    /\ users = GamUsers
    /\ lastLogin = {}
    /\ profiles = InitProfiles(GamUsers)
    /\ badges = {}
    /\ userBadges = EmptyBag
    /\ ledger = {}
    /\ achievements = {}
    /\ challenges = {SolvedChallenge}
    /\ submissions = {SolvedSubmission}
    /\ lessons = {}
    /\ quizzes = {}
    /\ lessonCompletions = {}
    /\ quizAttempts = {}
    /\ leaderboards = {}
    /\ cache = {}
    /\ favorites = {}
    /\ resp = NoResponse

Next ==
    \/ \E req \in users, u \in Learners :
           CreatePointTransaction(req, u, 5, "daily_login")
    \/ \E req \in users, key \in BadgeKeys, active \in BOOLEAN :
           CreateBadge(req, key, active)
    \/ \E req \in users, key \in BadgeKeys, active \in BOOLEAN :
           UpdateBadge(req, key, active)
    \/ \E req \in users, key \in BadgeKeys, u \in Learners \cup {None} :
           AwardBadge(req, key, u)
    \/ \E u \in Learners, key \in BadgeKeys : UserBadgeObjectsCreate(u, key)
    \/ \E u \in Learners, key \in BadgeKeys : AwardToUser(u, key)

Spec == Init /\ [][Next]_vars

(***************************************************************************)
(* The ledger specification: every request of the point-transactions API,  *)
(* with one active badge without criteria in the catalogue.                *)
(***************************************************************************)
LedgerIds == 1..MaxLedger
Requesters == GamUsers \cup {Anonymous}

InitLedger ==
    /\ users = GamUsers
    /\ lastLogin = {}
    /\ profiles = InitProfiles(GamUsers)
    /\ badges = {[key |-> "newcomer", is_active |-> TRUE]}
    /\ userBadges = EmptyBag
    /\ ledger = {}
    /\ achievements = {}
    /\ challenges = {}
    /\ submissions = {}
    /\ lessons = {}
    /\ quizzes = {}
    /\ lessonCompletions = {}
    /\ quizAttempts = {}
    /\ leaderboards = {}
    /\ cache = {}
    /\ favorites = {}
    /\ resp = NoResponse

NextLedger ==
    \/ \E req \in Requesters, u \in Learners, p \in PointInputs, t \in TypeInputs :
           CreatePointTransaction(req, u, p, t)
    \/ \E req \in Requesters, id \in LedgerIds, u \in Learners,
          p \in PointInputs, t \in TypeInputs :
           UpdatePointTransaction(req, id, u, p, t)
    \/ \E req \in Requesters, id \in LedgerIds : DeletePointTransaction(req, id)
    \/ \E req \in Requesters : ListPointTransactions(req)
    \/ \E req \in Requesters, id \in LedgerIds : RetrievePointTransaction(req, id)

SpecLedger == InitLedger /\ [][NextLedger]_vars

(***************************************************************************)
(* Properties of the badge tables.                                         *)
(***************************************************************************)

\* C1: in every reachable state each (user, badge) pair has at most one
\* UserBadge row, whatever mix of award_to_user calls, signal-driven badge
\* checks and admin award requests has run; and a direct
\* UserBadge.objects.create for a pair that already has a row raises
\* IntegrityError and leaves the table as it was.
C1_UserBadgeUnique ==
    /\ [](\A u \in GamUsers, key \in BadgeKeys :
             CopiesIn(UserBadgeRow(u, key), userBadges) <= 1)
    /\ [][\A u \in Learners, key \in BadgeKeys :
             (UserBadge_exists(DB, u, key) /\ UserBadgeObjectsCreate(u, key))
                 => (resp'.status = "IntegrityError" /\ userBadges' = userBadges)]_vars

\* C1 witness: a second direct create has just been refused for a user who
\* holds the badge, after a signal-driven award wrote its bonus row.
C1_Witness ==
    /\ resp.op = "UserBadge.objects.create"
    /\ resp.status = "IntegrityError"
    /\ \E u \in Learners, key \in BadgeKeys :
           /\ CopiesIn(UserBadgeRow(u, key), userBadges) = 1
           /\ \E r \in ledger : r.user = u /\ r.transaction_type = "badge_earned"
                                 /\ r.reference_id = key

\* Whether the user's counters meet one criterion of a badge.
CriterionMet(d, u, c, k) ==
    CASE k = "lessons_completed" -> lesson_completions_count(d, u) >= c[k]
      [] k = "quizzes_completed" ->
             Cardinality({a \in d.quizAttempts : a.user = u}) >= c[k]
      [] k = "challenges_solved" -> challenges_solved_count(d, u) >= c[k]
      [] k = "streak_days" -> ProfileOf(d, u).streak_days >= c[k]
      [] k = "difficulty_challenges" ->
             \A difficulty \in DOMAIN c[k] :
                 difficulty_solved_count(d, u, difficulty) >= c[k][difficulty]
      [] k = "perfect_quizzes" -> perfect_quizzes_count(d, u) >= c[k]
      [] k = "fast_solutions" -> 0 >= c[k]
      [] OTHER -> FALSE

Eligible(d, u, key) ==
    /\ \E b \in d.badges : b.key = key /\ b.is_active
    /\ HasProfile(d, u)
    /\ total_points(d, u) >= BadgeCatalog[key].points_required
    /\ \A k \in DOMAIN BadgeCatalog[key].criteria :
           CriterionMet(d, u, BadgeCatalog[key].criteria, k)

\* C2: the automatic badge checks that run when a point transaction is
\* created award a badge to a user only if the badge is active, the user's
\* total points reach points_required and every criterion key present in the
\* badge's criteria is met by the user's counters.
C2_AutoAwardOnlyWhenEligible ==
    [][\A u \in Learners, key \in BadgeKeys :
          (/\ resp'.op = "point_transaction_create"
           /\ CopiesIn(UserBadgeRow(u, key), userBadges') >
                  CopiesIn(UserBadgeRow(u, key), userBadges))
              => Eligible(DB, u, key)]_vars

\* C2: the state the failing input leads to; a learner without any quiz
\* attempt holds the badge that asks for a perfect quiz.
C2_Awarded ==
    /\ resp.op = "point_transaction_create"
    /\ \E u \in Learners :
           /\ UserBadge_exists(DB, u, "perfectionist")
           /\ perfect_quizzes_count(DB, u) = 0

(***************************************************************************)
(* Properties of the point ledger.                                         *)
(***************************************************************************)
RowsOf(u) == {r \in ledger : r.user = u}

\* C3: a point transaction is an immutable ledger row; no request to the
\* point-transactions API changes the points, user or transaction_type of
\* an existing row or removes it.
C3_LedgerImmutable ==
    [][\A r \in ledger :
          \E n \in ledger' : /\ n.id = r.id
                             /\ n.points = r.points
                             /\ n.user = r.user
                             /\ n.transaction_type = r.transaction_type]_vars

\* C3: the state after a learner's DELETE of a row has been answered 204.
C3_Deleted == resp.op = "point_transaction_delete" /\ resp.status = 204

\* C4: after every completed operation each user's profile.total_points
\* equals the sum of the points of that user's PointTransaction rows.
C4_TotalEqualsLedgerSum ==
    \A u \in users : HasProfile(DB, u) => total_points(DB, u) = SumPoints(RowsOf(u))

\* C4: a created row with positive points and a total that is still zero.
C4_Stale ==
    /\ resp.op = "point_transaction_create"
    /\ resp.status = 201
    /\ \E u \in Learners : SumPoints(RowsOf(u)) > 0 /\ total_points(DB, u) = 0

\* C6: the list returned to a non-staff user holds exactly the rows whose
\* user is that user, whatever rows the other users have.
C6_ListOwnRowsOnly ==
    [][\A req \in Learners :
          ListPointTransactions(req)
              => (resp'.status = 200 /\ resp'.body = RowsOf(req))]_vars

\* C6 witness: a learner has just listed their rows while another learner
\* has rows too.
C6_Witness ==
    /\ resp.op = "point_transaction_list"
    /\ resp.status = 200
    /\ \E a \in Learners, b \in Learners :
           /\ a # b
           /\ resp.body = RowsOf(a)
           /\ RowsOf(a) # {}
           /\ RowsOf(b) # {}

(***************************************************************************)
(* users.permissions and the rest_framework permission classes.            *)
(***************************************************************************)
IsAuthenticated_has_permission(req) == is_authenticated(req)
IsAuthenticatedOrReadOnly_has_permission(req, method) ==
    method \in SAFE_METHODS \/ is_authenticated(req)

\* IsTeacherOrReadOnly.has_permission with the role test left out.
IsTeacherOrReadOnly_has_permission_any_role(req, method) == is_authenticated(req)

\* IsTeacherOrReadOnly.has_permission
IsTeacherOrReadOnly_has_permission(req, method) ==
    IF method \in SAFE_METHODS THEN is_authenticated(req)
    ELSE is_authenticated(req)
         /\ (role(req) = "teacher" \/ role(req) = "admin" \/ is_superuser(req))

\* hasattr(obj, name) on a model instance: the row has such a column.
hasattr(obj, name) == name \in DOMAIN obj

\* IsTeacherOrReadOnly.has_object_permission
IsTeacherOrReadOnly_has_object_permission(req, method, obj) ==
    IF method \in SAFE_METHODS THEN is_authenticated(req)
    ELSE IF hasattr(obj, "teacher")
         THEN obj.teacher = req \/ role(req) = "admin" \/ is_superuser(req)
    ELSE IF hasattr(obj, "user")
         THEN obj.user = req \/ role(req) = "admin" \/ is_superuser(req)
    ELSE FALSE

\* get_permissions returning an empty permission list for the write actions.
write_permissions_allow_any(req, method) == TRUE

\* The permission list get_permissions returns for create, update,
\* partial_update and destroy: [IsAuthenticated, IsTeacherOrReadOnly].
write_permissions(req, method) ==
    IsAuthenticated_has_permission(req)
    /\ IsTeacherOrReadOnly_has_permission(req, method)

\* The queryset of the challenge, lesson and quiz viewsets: teachers and
\* admins see every row, everyone else the published ones.
sees_unpublished(req) ==
    is_authenticated(req)
    /\ (is_superuser(req) \/ role(req) = "admin" \/ role(req) = "teacher")

(***************************************************************************)
(* /api/v1/challenges/                                                     *)
(***************************************************************************)
ChallengeStatusInputs == {"draft", "published"}

Challenge_get_queryset(d, req) ==
    IF sees_unpublished(req) THEN d.challenges
    ELSE {c \in d.challenges : c.status = "published"}

\* ChallengeCreateSerializer.create: the author is the requester.
\* post_save: update_author_statistics does nothing.
Challenge_create(d, req, status) ==
    [d EXCEPT !.challenges =
        @ \cup {[id |-> FreshId(d.challenges), author |-> req, status |-> status,
                 difficulty_level |-> "beginner"]}]

\* POST /challenges/
CreateChallenge(req, valid, status) ==
    LET op == "challenge_create"
    IN IF ~write_permissions(req, "POST") THEN Reject(op, req, permission_denied(req))
       ELSE IF ~valid THEN Reject(op, req, 400)
       ELSE Answer(op, req, Challenge_create(DB, req, status), 201)

\* PUT/PATCH /challenges/{id}/
UpdateChallenge(req, id, status) ==
    LET op == "challenge_update"
        qs == Challenge_get_queryset(DB, req)
    IN IF ~write_permissions(req, "PATCH") THEN Reject(op, req, permission_denied(req))
       ELSE IF ~\E c \in qs : c.id = id THEN Reject(op, req, 404)
       ELSE LET obj == CHOOSE c \in qs : c.id = id
            IN IF ~IsTeacherOrReadOnly_has_object_permission(req, "PATCH", obj)
               THEN Reject(op, req, permission_denied(req))
               ELSE Answer(op, req,
                        [DB EXCEPT !.challenges =
                            (@ \ {obj}) \cup {[obj EXCEPT !.status = status]}],
                        200)

\* DELETE /challenges/{id}/ ; the submissions and the favorites of the
\* challenge cascade.
DeleteChallenge(req, id) ==
    LET op == "challenge_delete"
        qs == Challenge_get_queryset(DB, req)
    IN IF ~write_permissions(req, "DELETE") THEN Reject(op, req, permission_denied(req))
       ELSE IF ~\E c \in qs : c.id = id THEN Reject(op, req, 404)
       ELSE LET obj == CHOOSE c \in qs : c.id = id
            IN IF ~IsTeacherOrReadOnly_has_object_permission(req, "DELETE", obj)
               THEN Reject(op, req, permission_denied(req))
               ELSE Answer(op, req,
                        [DB EXCEPT !.challenges = @ \ {obj},
                                   !.submissions = {x \in @ : x.challenge # id},
                                   !.favorites = {x \in @ : x.challenge # id}],
                        204)

\* GET /challenges/ and GET /challenges/{id}/
ListChallenges(req) ==
    LET op == "challenge_list"
    IN IF ~IsAuthenticatedOrReadOnly_has_permission(req, "GET")
       THEN Reject(op, req, permission_denied(req))
       ELSE /\ UNCHANGED tables
            /\ resp' = Response(op, 200, Challenge_get_queryset(DB, req))

RetrieveChallenge(req, id) ==
    LET op == "challenge_retrieve"
        qs == Challenge_get_queryset(DB, req)
    IN IF ~IsAuthenticatedOrReadOnly_has_permission(req, "GET")
       THEN Reject(op, req, permission_denied(req))
       ELSE IF ~\E c \in qs : c.id = id THEN Reject(op, req, 404)
       ELSE /\ UNCHANGED tables
            /\ resp' = Response(op, 200, {c \in qs : c.id = id})

(***************************************************************************)
(* /api/v1/content/lessons/ and /api/v1/content/quizzes/                   *)
(***************************************************************************)
Lesson_get_queryset(d, req) ==
    IF sees_unpublished(req) THEN d.lessons ELSE {l \in d.lessons : l.is_published}
Quiz_get_queryset(d, req) ==
    IF sees_unpublished(req) THEN d.quizzes ELSE {q \in d.quizzes : q.is_published}

\* POST /lessons/ : LessonCreateSerializer.create sets the author.
CreateLesson(req, valid, is_published) ==
    LET op == "lesson_create"
    IN IF ~write_permissions(req, "POST") THEN Reject(op, req, permission_denied(req))
       ELSE IF ~valid THEN Reject(op, req, 400)
       ELSE Answer(op, req,
                [DB EXCEPT !.lessons = @ \cup {[id |-> FreshId(lessons), author |-> req,
                                               is_published |-> is_published]}],
                201)

\* POST /quizzes/ : QuizCreateSerializer.create sets the author.
CreateQuiz(req, valid, is_published) ==
    LET op == "quiz_create"
    IN IF ~write_permissions(req, "POST") THEN Reject(op, req, permission_denied(req))
       ELSE IF ~valid THEN Reject(op, req, 400)
       ELSE Answer(op, req,
                [DB EXCEPT !.quizzes = @ \cup {[id |-> FreshId(quizzes), author |-> req,
                                               is_published |-> is_published]}],
                201)

\* GET list and GET detail of lessons and quizzes.
ListLessons(req) ==
    LET op == "lesson_list"
    IN IF ~IsAuthenticatedOrReadOnly_has_permission(req, "GET")
       THEN Reject(op, req, permission_denied(req))
       ELSE /\ UNCHANGED tables
            /\ resp' = Response(op, 200, Lesson_get_queryset(DB, req))

RetrieveLesson(req, id) ==
    LET op == "lesson_retrieve"
        qs == Lesson_get_queryset(DB, req)
    IN IF ~IsAuthenticatedOrReadOnly_has_permission(req, "GET")
       THEN Reject(op, req, permission_denied(req))
       ELSE IF ~\E l \in qs : l.id = id THEN Reject(op, req, 404)
       ELSE /\ UNCHANGED tables
            /\ resp' = Response(op, 200, {l \in qs : l.id = id})

ListQuizzes(req) ==
    LET op == "quiz_list"
    IN IF ~IsAuthenticatedOrReadOnly_has_permission(req, "GET")
       THEN Reject(op, req, permission_denied(req))
       ELSE /\ UNCHANGED tables
            /\ resp' = Response(op, 200, Quiz_get_queryset(DB, req))

RetrieveQuiz(req, id) ==
    LET op == "quiz_retrieve"
        qs == Quiz_get_queryset(DB, req)
    IN IF ~IsAuthenticatedOrReadOnly_has_permission(req, "GET")
       THEN Reject(op, req, permission_denied(req))
       ELSE IF ~\E q \in qs : q.id = id THEN Reject(op, req, 404)
       ELSE /\ UNCHANGED tables
            /\ resp' = Response(op, 200, {q \in qs : q.id = id})

(***************************************************************************)
(* Submission.save and its post_save receivers: the six of the challenges  *)
(* app, then award_challenge_points of the gamification app.               *)
(***************************************************************************)
points_reward == 100
difficulty_points == [beginner |-> 20, intermediate |-> 35, advanced |-> 50,
                      expert |-> 75]
first_challenge_points == 50

\* Rows are numbered in the order they are submitted, so a smaller id is an
\* earlier submitted_at.
NextSubmissionId(d) == Cardinality(d.submissions) + 1

is_accepted(row) == row.status = "accepted"
points_earned(row) == IF is_accepted(row) THEN points_reward ELSE 0

\* challenges.signals.award_points_for_submission: user.userprofile is not an
\* attribute of User (the accessor is 'profile').
award_points_for_submission(d, row, created) ==
    LET previous_accepted ==
            \E x \in d.submissions : /\ x.challenge = row.challenge
                                     /\ x.user = row.user
                                     /\ x.status = "accepted"
                                     /\ x.id < row.id
    IN IF ~created /\ is_accepted(row) /\ ~previous_accepted
       THEN Raise(d, "AttributeError")
       ELSE d

\* challenges.signals.update_user_statistics
update_user_statistics(d, row, created) ==
    IF created /\ ~HasProfile(d, row.user)
    THEN Raise(d, "RelatedObjectDoesNotExist")
    ELSE d

\* challenges.signals.create_point_transaction: PointTransaction has no
\* source_type column, so building the filter raises FieldError.
create_point_transaction(d, row, created) ==
    IF ~created /\ is_accepted(row) /\ points_earned(row) > 0
    THEN Raise(d, "FieldError")
    ELSE d

\* challenges.signals.check_badge_eligibility: user.userprofile again; only
\* ImportError is caught.
Submission_check_badge_eligibility(d, row, created) ==
    IF ~created /\ is_accepted(row) THEN Raise(d, "AttributeError") ELSE d

\* The existence test of award_challenge_points, and the test left out.
solved_transaction_exists_ignored(d, row) == FALSE
solved_transaction_exists(d, row) ==
    \E r \in d.ledger : /\ r.user = row.user
                        /\ r.transaction_type = "challenge_solved"
                        /\ r.reference_id = ToString(row.challenge)

\* gamification.signals.award_challenge_points
award_challenge_points(d, row, created) ==
    LET challenge == ChallengeOf(d, row)
        d1 == PointTransaction_create(d, row.user,
                  difficulty_points[challenge.difficulty_level],
                  "challenge_solved", ToString(row.challenge))
    IN IF ~is_accepted(row) \/ solved_transaction_exists(d, row) THEN d
       ELSE IF ~Ok(d1) THEN d1
       ELSE IF \E a \in d1.achievements :
                   a.user = row.user /\ a.atype = "first_challenge"
            THEN d1
       ELSE Achievement_create(d1, row.user, "first_challenge",
                               first_challenge_points, ToString(row.challenge))

\* The receivers of the challenges app in connection order, stopping at the
\* first that raises.  update_challenge_statistics and
\* update_leaderboard_cache write counters and cache keys only.
challenges_receivers(d, row, created) ==
    LET d1 == award_points_for_submission(d, row, created)
        d2 == IF Ok(d1) THEN update_user_statistics(d1, row, created) ELSE d1
        d3 == IF Ok(d2) THEN create_point_transaction(d2, row, created) ELSE d2
    IN IF Ok(d3) THEN Submission_check_badge_eligibility(d3, row, created)
       ELSE d3

\* send(): each app connects its receivers when it is loaded, so the
\* receivers run app by app in the order of INSTALLED_APPS.
RECURSIVE Submission_receivers(_, _, _, _)
Submission_receivers(d, apps, row, created) ==
    IF apps = <<>> \/ ~Ok(d) THEN d
    ELSE LET d1 == IF Head(apps) = "challenges"
                   THEN challenges_receivers(d, row, created)
                   ELSE IF Head(apps) = "gamification"
                        THEN award_challenge_points(d, row, created)
                   ELSE d
         IN Submission_receivers(d1, Tail(apps), row, created)

Submission_post_save(d, row, created) ==
    Submission_receivers(d, INSTALLED_APPS, row, created)

\* Submission.save: the row is written, then post_save is sent.
Submission_save(d, row, created) ==
    Submission_post_save(
        [d EXCEPT !.submissions = {x \in @ : x.id # row.id} \cup {row}],
        row, created)

(***************************************************************************)
(* /api/v1/challenges/submissions/                                         *)
(***************************************************************************)
SubmissionStatusInputs == {"pending", "accepted", "wrong_answer"}
ScoreInputs == {0, 100, 101}
MaxScore == 100

\* SubmissionViewSet.get_queryset
Submission_get_queryset(d, req) ==
    IF is_superuser(req) \/ role(req) = "admin" THEN d.submissions
    ELSE IF role(req) = "teacher"
         THEN {x \in d.submissions :
                  x.user = req \/ ChallengeOf(d, x).author = req}
    ELSE {x \in d.submissions : x.user = req}

\* SubmissionCreateSerializer.validate_challenge_id
validate_challenge_id(d, value) ==
    \E c \in d.challenges : c.id = value /\ c.status = "published"

\* POST /submissions/ : SubmissionCreateSerializer.create
CreateSubmission(req, challenge_id, code_ok) ==
    LET op == "submission_create"
        row == [id |-> NextSubmissionId(DB), user |-> req,
                challenge |-> challenge_id, status |-> "pending", score |-> 0]
    IN IF ~IsAuthenticated_has_permission(req)
       THEN Reject(op, req, permission_denied(req))
       ELSE IF ~validate_challenge_id(DB, challenge_id) \/ ~code_ok
            THEN Reject(op, req, 400)
       ELSE Answer(op, req, Submission_save(DB, row, TRUE), 201)

\* PUT/PATCH /submissions/{id}/ with SubmissionSerializer: challenge and user
\* are read-only, status and score are not.
UpdateSubmission(req, id, status, score) ==
    LET op == "submission_update"
    IN IF ~IsAuthenticated_has_permission(req)
       THEN Reject(op, req, permission_denied(req))
       ELSE IF ~\E x \in Submission_get_queryset(DB, req) : x.id = id
            THEN Reject(op, req, 404)
       ELSE IF score < 0 \/ score > MaxScore THEN Reject(op, req, 400)
       ELSE LET old == CHOOSE x \in submissions : x.id = id
                new == [old EXCEPT !.status = status, !.score = score]
            IN Answer(op, req, Submission_save(DB, new, FALSE), 200)

\* POST /submissions/{id}/resubmit/
ResubmitSubmission(req, id) ==
    LET op == "submission_resubmit"
    IN IF ~IsAuthenticated_has_permission(req)
       THEN Reject(op, req, permission_denied(req))
       ELSE IF ~\E x \in Submission_get_queryset(DB, req) : x.id = id
            THEN Reject(op, req, 404)
       ELSE LET old == CHOOSE x \in submissions : x.id = id
            IN IF old.user # req /\ ~is_superuser(req)
                  /\ role(req) \notin {"admin", "teacher"}
               THEN Reject(op, req, 403)
               ELSE Answer(op, req,
                        Submission_save(DB, [old EXCEPT !.status = "pending"], FALSE),
                        200)

(***************************************************************************)
(* The permissions specification: the write and read requests of the       *)
(* challenge, lesson, quiz, badge and submission endpoints, by every kind  *)
(* of requester.                                                           *)
(***************************************************************************)
ApiUsers == {"s1", "t1", "t2", "a1"}
ApiRequesters == ApiUsers \cup {Anonymous}
ContentAuthors == {Anonymous, "s1", "t1"}
ChallengeIds == 1..MaxChallenges
ContentIds == 1..MaxContent

InitApi ==
    /\ users = ApiUsers
    /\ lastLogin = {}
    /\ profiles = InitProfiles(ApiUsers)
    /\ badges = {}
    /\ userBadges = EmptyBag
    /\ ledger = {}
    /\ achievements = {}
    /\ challenges = {}
    /\ submissions = {}
    /\ lessons = {}
    /\ quizzes = {}
    /\ lessonCompletions = {}
    /\ quizAttempts = {}
    /\ leaderboards = {}
    /\ cache = {}
    /\ favorites = {}
    /\ resp = NoResponse

NextApi ==
    \/ \E req \in ApiRequesters, valid \in BOOLEAN, st \in ChallengeStatusInputs :
           CreateChallenge(req, valid, st)
    \/ \E req \in ApiRequesters, id \in ChallengeIds, st \in ChallengeStatusInputs :
           UpdateChallenge(req, id, st)
    \/ \E req \in ApiRequesters, id \in ChallengeIds : DeleteChallenge(req, id)
    \/ \E req \in ApiRequesters : ListChallenges(req)
    \/ \E req \in ApiRequesters, id \in ChallengeIds : RetrieveChallenge(req, id)
    \/ \E req \in ContentAuthors, valid \in BOOLEAN, pub \in BOOLEAN :
           CreateLesson(req, valid, pub)
    \/ \E req \in ContentAuthors, valid \in BOOLEAN, pub \in BOOLEAN :
           CreateQuiz(req, valid, pub)
    \/ \E req \in ApiRequesters : ListLessons(req)
    \/ \E req \in ApiRequesters, id \in ContentIds : RetrieveLesson(req, id)
    \/ \E req \in ApiRequesters : ListQuizzes(req)
    \/ \E req \in ApiRequesters, id \in ContentIds : RetrieveQuiz(req, id)
    \/ \E req \in ApiRequesters : CreateBadge(req, "newcomer", TRUE)
    \/ \E req \in {Anonymous, "s1"}, id \in ChallengeIds :
           CreateSubmission(req, id, TRUE)

SpecApi == InitApi /\ [][NextApi]_vars

(***************************************************************************)
(* The submissions specification: teacher t1 has a published challenge;    *)
(* every kind of user submits, edits and resubmits.                        *)
(***************************************************************************)
SubUsers == {"s1", "s2", "t1", "a1"}
SubRequesters == SubUsers \cup {Anonymous}
SubmissionIds == 1..MaxSubmissions

InitSub ==
    /\ users = SubUsers
    /\ lastLogin = {}
    /\ profiles = InitProfiles(SubUsers)
    /\ badges = {}
    /\ userBadges = EmptyBag
    /\ ledger = {}
    /\ achievements = {}
    /\ challenges = {[id |-> 1, author |-> "t1", status |-> "published",
                      difficulty_level |-> "beginner"]}
    /\ submissions = {}
    /\ lessons = {}
    /\ quizzes = {}
    /\ lessonCompletions = {}
    /\ quizAttempts = {}
    /\ leaderboards = {}
    /\ cache = {}
    /\ favorites = {}
    /\ resp = NoResponse

NextSub ==
    \/ \E req \in SubRequesters, id \in 1..2, code_ok \in BOOLEAN :
           CreateSubmission(req, id, code_ok)
    \/ \E req \in SubRequesters, id \in SubmissionIds,
          st \in SubmissionStatusInputs, sc \in ScoreInputs :
           UpdateSubmission(req, id, st, sc)
    \/ \E req \in SubRequesters, id \in SubmissionIds : ResubmitSubmission(req, id)

SpecSub == InitSub /\ [][NextSub]_vars

(***************************************************************************)
(* User.save and its post_save receivers: the four of the users app, then  *)
(* create_daily_login_points of the gamification app.                      *)
(***************************************************************************)
streak_milestones == <<3, 7, 14, 30, 60, 100, 365>>
daily_login_points == 5
time_bonus_points == 10

RECURSIVE StreakLoop(_, _, _, _)
\* gamification.signals.check_streak_milestones: the loop over the milestones.
StreakLoop(d, ms, u, streak) ==
    IF ms = <<>> \/ ~Ok(d) THEN d
    ELSE LET m == Head(ms)
         IN IF streak >= m
               /\ Achievement_unique(d, u, "streak_milestone", ToString(m))
            THEN StreakLoop(
                     Achievement_create(d, u, "streak_milestone", m * 2,
                                        ToString(m)),
                     Tail(ms), u, streak)
            ELSE StreakLoop(d, Tail(ms), u, streak)

check_streak_milestones(d, p, created) ==
    IF ~created /\ p.streak_days > 0
    THEN StreakLoop(d, streak_milestones, p.user, p.streak_days)
    ELSE d

\* UserProfile.user is a OneToOneField: a second row for the user is an
\* IntegrityError.  post_save: check_streak_milestones.
UserProfile_create(d, u) ==
    LET p == NewProfile(FreshId(d.profiles), u)
    IN IF HasProfile(d, u) THEN Raise(d, "IntegrityError")
       ELSE check_streak_milestones([d EXCEPT !.profiles = @ \cup {p}], p, TRUE)

\* profile.save() of a row that exists.
UserProfile_save(d, p) == check_streak_milestones(d, p, FALSE)

\* users.signals.create_user_profile
create_user_profile(d, u, created) ==
    IF created THEN UserProfile_create(d, u) ELSE d

\* users.signals.save_user_profile with the else branch left out.
save_user_profile_save_only(d, u) ==
    IF HasProfile(d, u) THEN UserProfile_save(d, ProfileOf(d, u)) ELSE d

\* users.signals.save_user_profile
save_user_profile(d, u) ==
    IF HasProfile(d, u) THEN UserProfile_save(d, ProfileOf(d, u))
    ELSE UserProfile_create(d, u)

\* gamification.signals.create_daily_login_points.  existing_today says
\* whether one of the user's daily_login rows is dated today; hour is the
\* part of the day the save happens in.
create_daily_login_points(d, u, created, existing_today, hour) ==
    LET existing_transaction ==
            existing_today
            /\ \E r \in d.ledger : r.user = u /\ r.transaction_type = "daily_login"
        d1 == PointTransaction_create(d, u, daily_login_points, "daily_login", "")
        atype == IF hour = "early" THEN "early_bird" ELSE "night_owl"
    IN IF created \/ u \notin d.lastLogin \/ existing_transaction THEN d
       ELSE IF ~Ok(d1) \/ hour = "day" THEN d1
       ELSE Achievement_create(d1, u, atype, time_bonus_points, "")

\* The receivers of the users app in connection order.  create_teacher_profile
\* and handle_role_change write the teacher profile table only.
users_receivers(d, u, created) ==
    LET d1 == create_user_profile(d, u, created)
    IN IF Ok(d1) THEN save_user_profile(d1, u) ELSE d1

\* send(): each app connects its receivers when it is loaded, so the
\* receivers run app by app in the order of INSTALLED_APPS.
RECURSIVE User_receivers(_, _, _, _, _, _)
User_receivers(d, apps, u, created, existing_today, hour) ==
    IF apps = <<>> \/ ~Ok(d) THEN d
    ELSE LET d1 == IF Head(apps) = "users" THEN users_receivers(d, u, created)
                   ELSE IF Head(apps) = "gamification"
                        THEN create_daily_login_points(d, u, created,
                                                       existing_today, hour)
                   ELSE d
         IN User_receivers(d1, Tail(apps), u, created, existing_today, hour)

User_post_save(d, u, created, existing_today, hour) ==
    User_receivers(d, INSTALLED_APPS, u, created, existing_today, hour)

(***************************************************************************)
(* /api/v1/users/                                                          *)
(***************************************************************************)
HourInputs == {"day", "early"}

\* POST /users/ (register): UserManager.create_user saves a new row.
CreateUser(u) ==
    /\ u \notin users
    /\ \E d \in {User_post_save([DB EXCEPT !.users = @ \cup {u}], u, TRUE, FALSE,
                                  "day")} :
           /\ WithinBounds(d)
           /\ Commit(Finish(DB, d))
           /\ resp' = Response("user_create", StatusOf(d, 201), {u})

\* A save of an existing user: PATCH /users/me/, change_password, or the
\* last_login update of a login.
SaveUser(u, login, existing_today, hour) ==
    /\ u \in users
    /\ \E d \in {User_post_save(
                       IF login THEN [DB EXCEPT !.lastLogin = @ \cup {u}] ELSE DB,
                       u, FALSE, existing_today, hour)} :
           /\ WithinBounds(d)
           /\ Commit(Finish(DB, d))
           /\ resp' = Response("user_save", StatusOf(d, 200), {u})

\* users.permissions.IsOwnerOrReadOnly.has_object_permission
IsOwnerOrReadOnly_has_object_permission(req, method, obj) ==
    IF method \in SAFE_METHODS THEN TRUE
    ELSE IF hasattr(obj, "user") THEN obj.user = req
    ELSE obj = req

\* UserProfileViewSet.get_queryset (no class enrolments)
UserProfile_get_queryset(d, req) ==
    IF is_superuser(req) \/ role(req) = "admin" THEN d.profiles
    ELSE {p \in d.profiles : p.user = req}

\* DELETE /profiles/{id}/ : UserProfileViewSet is a ModelViewSet.
DeleteProfile(req, u) ==
    LET op == "profile_delete"
        qs == UserProfile_get_queryset(DB, req)
    IN IF ~IsAuthenticated_has_permission(req) \/ req \notin users
       THEN Reject(op, req, NotAuthenticated)
       ELSE IF ~\E p \in qs : p.user = u THEN Reject(op, req, 404)
       ELSE LET obj == CHOOSE p \in qs : p.user = u
            IN IF ~IsOwnerOrReadOnly_has_object_permission(req, "DELETE", obj)
               THEN Reject(op, req, 403)
               ELSE Answer(op, req, [DB EXCEPT !.profiles = @ \ {obj}], 204)

(***************************************************************************)
(* The accounts specification: users register, save, log in and delete     *)
(* their profiles, with at most one badge in the catalogue.                *)
(***************************************************************************)
UserIds == {"s1", "t1", "a1"}

InitUser ==
    /\ users = {}
    /\ lastLogin = {}
    /\ profiles = {}
    /\ badges \in {{}, {[key |-> "newcomer", is_active |-> TRUE]},
                   {[key |-> "quiz_master", is_active |-> TRUE]}}
    /\ userBadges = EmptyBag
    /\ ledger = {}
    /\ achievements = {}
    /\ challenges = {}
    /\ submissions = {}
    /\ lessons = {}
    /\ quizzes = {}
    /\ lessonCompletions = {}
    /\ quizAttempts = {}
    /\ leaderboards = {}
    /\ cache = {}
    /\ favorites = {}
    /\ resp = NoResponse

NextUser ==
    \/ \E u \in UserIds : CreateUser(u)
    \/ \E u \in UserIds, login \in BOOLEAN, today \in BOOLEAN, hour \in HourInputs :
           SaveUser(u, login, today, hour)
    \/ \E req \in UserIds, u \in UserIds : DeleteProfile(req, u)

SpecUser == InitUser /\ [][NextUser]_vars

(***************************************************************************)
(* C5.  A submission created through the API starts as pending, and no     *)
(* request of a user who is not an admin (create, update or resubmit of    *)
(* the submissions API) turns the status of a submission to accepted or    *)
(* changes its score.                                                      *)
(***************************************************************************)
NonAdmins == SubRequesters \ Admins

EvaluationKept ==
    \A o \in submissions :
        \E n \in submissions' : /\ n.id = o.id
                                /\ n.score = o.score
                                /\ (n.status = "accepted" => o.status = "accepted")

C5_StatusSetOnlyByAdmin ==
    [][/\ \A n \in submissions' :
              (\A o \in submissions : o.id # n.id) => n.status = "pending"
       /\ \A req \in NonAdmins, id \in SubmissionIds :
              /\ (\E code_ok \in BOOLEAN : CreateSubmission(req, id, code_ok))
                     => EvaluationKept
              /\ (\E st \in SubmissionStatusInputs, sc \in ScoreInputs :
                      UpdateSubmission(req, id, st, sc)) => EvaluationKept
              /\ ResubmitSubmission(req, id) => EvaluationKept]_vars

\* The student s1, who is not staff, holds a submission with a full score.
C5_SelfScored ==
    /\ resp.op = "submission_update"
    /\ resp.status = 200
    /\ ledger = {}
    /\ \E x \in submissions : x.user = "s1" /\ x.score = MaxScore

(***************************************************************************)
(* C7.  An anonymous request to create a challenge, a lesson, a badge or a *)
(* submission is answered 401 and changes no table; an anonymous list of   *)
(* challenges, lessons or quizzes is answered 200 with the published rows, *)
(* and an anonymous detail read of a published row is answered 200.        *)
(***************************************************************************)
Rejected401 == resp'.status = 401 /\ UNCHANGED tables

C7_AnonymousWritesRejected ==
    [][/\ \A valid \in BOOLEAN, st \in ChallengeStatusInputs :
              CreateChallenge(Anonymous, valid, st) => Rejected401
       /\ \A valid \in BOOLEAN, pub \in BOOLEAN :
              CreateLesson(Anonymous, valid, pub) => Rejected401
       /\ CreateBadge(Anonymous, "newcomer", TRUE) => Rejected401
       /\ \A id \in ChallengeIds : CreateSubmission(Anonymous, id, TRUE) => Rejected401
       /\ ListChallenges(Anonymous)
              => (/\ resp'.status = 200
                  /\ resp'.body = {c \in challenges : c.status = "published"})
       /\ ListLessons(Anonymous)
              => (resp'.status = 200 /\ resp'.body = {l \in lessons : l.is_published})
       /\ ListQuizzes(Anonymous)
              => (resp'.status = 200 /\ resp'.body = {q \in quizzes : q.is_published})
       /\ \A id \in ChallengeIds :
              ((\E c \in challenges : c.id = id /\ c.status = "published")
               /\ RetrieveChallenge(Anonymous, id)) => resp'.status = 200
       /\ \A id \in ContentIds :
              /\ ((\E l \in lessons : l.id = id /\ l.is_published)
                  /\ RetrieveLesson(Anonymous, id)) => resp'.status = 200
              /\ ((\E q \in quizzes : q.id = id /\ q.is_published)
                  /\ RetrieveQuiz(Anonymous, id)) => resp'.status = 200]_vars

\* An anonymous POST to the challenge list was answered 401 while published
\* challenges, lessons and quizzes exist.
C7_Witness ==
    /\ resp.op = "challenge_create"
    /\ resp.status = 401
    /\ \E c \in challenges : c.status = "published"
    /\ \E l \in lessons : l.is_published
    /\ \E q \in quizzes : q.is_published

(***************************************************************************)
(* C8.  A valid POST to the challenge list by a teacher, an admin or a     *)
(* superuser is answered 201 and adds a challenge whose author is the      *)
(* requester; the same POST by a student is rejected with 403 and adds no  *)
(* challenge.                                                              *)
(***************************************************************************)
MayAuthor(req) == role(req) \in {"teacher", "admin"} \/ is_superuser(req)

C8_TeachersCreateChallenges ==
    [][\A req \in ApiUsers, st \in ChallengeStatusInputs :
           CreateChallenge(req, TRUE, st)
               => IF MayAuthor(req)
                  THEN /\ resp'.status = 201
                       /\ \E c \in challenges' \ challenges :
                              c.author = req /\ c.status = st
                  ELSE resp'.status = 403 /\ challenges' = challenges]_vars

\* A teacher's POST was answered 201 and the teacher is the author.
C8_Witness ==
    /\ resp.op = "challenge_create"
    /\ resp.status = 201
    /\ \E c \in challenges : c.author \in Teachers

(***************************************************************************)
(* C9.  PUT/PATCH/DELETE on an existing challenge succeeds when the        *)
(* requester is the author of the challenge or an admin/superuser, and is  *)
(* denied for every other user.                                            *)
(***************************************************************************)
MayEdit(req, c) == c.author = req \/ role(req) = "admin" \/ is_superuser(req)

C9_AuthorOrAdminEdits ==
    [][\A req \in ApiUsers, c \in challenges :
           /\ (\E st \in ChallengeStatusInputs : UpdateChallenge(req, c.id, st))
                  => IF MayEdit(req, c) THEN resp'.status = 200
                     ELSE resp'.status \in {403, 404} /\ challenges' = challenges
           /\ DeleteChallenge(req, c.id)
                  => IF MayEdit(req, c) THEN resp'.status = 204 /\ c \notin challenges'
                     ELSE resp'.status \in {403, 404} /\ challenges' = challenges]_vars

\* A PATCH was refused with 403 although only the author and an admin can
\* have sent it: nobody has written a challenge after its creation.
C9_AuthorDenied ==
    /\ resp.op = "challenge_update"
    /\ resp.status = 403
    /\ \E c \in challenges : c.author = "t1" /\ c.status = "draft"

(***************************************************************************)
(* C10.  After a user is created, and after every later save of the user,  *)
(* exactly one UserProfile row exists for the user.  The response of       *)
(* CreateUser and of SaveUser names the user in its body.                  *)
(***************************************************************************)
ProfilesOf(u) == {p \in profiles : p.user = u}

LeaderboardTypes ==
    {"global_points", "weekly_points", "challenges_solved", "lessons_completed",
     "current_streak"}

\* Where a descending ORDER BY puts NULL: after every value.
DescNullsFirst == FALSE

\* User rows in primary-key order; rows with equal sort keys are listed in
\* this order.
UserOrder == <<"a1", "s1", "s2", "t1", "t2">>
PositionOf(u) == CHOOSE i \in 1..Len(UserOrder) : UserOrder[i] = u

\* User.objects.filter(is_active=True)
base_queryset(d) == SelectSeq(UserOrder, LAMBDA u : u \in d.users)

\* The value a leaderboard type orders by; null when the join or the Sum has
\* no row to draw from.
annotation(d, ltype, u) ==
    IF ltype = "global_points"
    THEN [null |-> ~HasProfile(d, u),
          v |-> IF HasProfile(d, u) THEN total_points(d, u) ELSE 0]
    ELSE IF ltype = "weekly_points"
    THEN [null |-> ~\E r \in d.ledger : r.user = u,
          v |-> SumPoints({r \in d.ledger : r.user = u})]
    ELSE IF ltype = "challenges_solved"
    THEN [null |-> FALSE, v |-> challenges_solved_count(d, u)]
    ELSE [null |-> FALSE, v |-> lesson_completions_count(d, u)]

\* order_by('-<annotation>')
sorts_before(d, ltype, a, b) ==
    LET x == annotation(d, ltype, a)
        y == annotation(d, ltype, b)
    IN IF x.null # y.null THEN x.null = DescNullsFirst
       ELSE IF ~x.null /\ x.v # y.v THEN x.v > y.v
       ELSE PositionOf(a) < PositionOf(b)

\* base_queryset...order_by(...)[:limit]
ordered_users(d, ltype, limit) ==
    LET sorted == SortSeq(base_queryset(d),
                          LAMBDA a, b : sorts_before(d, ltype, a, b))
    IN SubSeq(sorted, 1, IF limit < Len(sorted) THEN limit ELSE Len(sorted))

\* The "if" of the list comprehension: none for global_points, a truth test
\* of the annotation for weekly_points, "> 0" for the counts.
entry_kept(d, ltype, u) ==
    LET x == annotation(d, ltype, u)
    IN IF ltype = "global_points" THEN TRUE
       ELSE IF ltype = "weekly_points" THEN ~x.null /\ x.v # 0
       ELSE x.v > 0

\* Leaderboard._generate_leaderboard_data: the rank is the position in the
\* ordered queryset; every entry reads user.profile; ordering by
\* profile__current_streak names a field UserProfile does not have.
enumerate(d, ltype, us) ==
    SelectSeq([i \in 1..Len(us) |->
                  [rank |-> i, user_id |-> us[i],
                   score |-> annotation(d, ltype, us[i]).v]],
              LAMBDA e : entry_kept(d, ltype, e.user_id))

generate_leaderboard_data(d, lb, limit) ==
    LET ltype == lb.leaderboard_type
    IN IF ltype = "current_streak" THEN [exc |-> "FieldError", data |-> <<>>]
       ELSE IF ltype \notin LeaderboardTypes THEN [exc |-> "none", data |-> <<>>]
       ELSE Bind(Bind(ordered_users(d, ltype, limit),
                      LAMBDA us : enumerate(d, ltype, us)),
                 LAMBDA data :
                     IF \E i \in 1..Len(data) : ~HasProfile(d, data[i].user_id)
                     THEN [exc |-> "RelatedObjectDoesNotExist", data |-> <<>>]
                     ELSE [exc |-> "none", data |-> data])

\* Leaderboard.get_leaderboard_data: the database and cache it leaves, and
\* the data it returns.  The copy of the data it saves in the cached_data
\* column is read by no handler and is left out of the rows.
get_leaderboard_data(d, lb, limit) ==
    LET key == leaderboard_cache_key(lb.id)
        cached_data == cache_get(d, key)
    IN IF cached_data # <<>> THEN [db |-> d, data |-> cached_data]
       ELSE Bind(generate_leaderboard_data(d, lb, limit),
                 LAMBDA g :
                     IF g.exc # "none" THEN [db |-> Raise(d, g.exc), data |-> <<>>]
                     ELSE [db |-> cache_set(d, key, g.data), data |-> g.data])

\* LeaderboardSerializer: entries, user_rank and total_participants each
\* call get_leaderboard_data; the entries are the data of the first call.
LeaderboardSerializer_data(d, lb, req) ==
    Bind(get_leaderboard_data(d, lb, 100),
         LAMBDA r1 :
             Bind(IF Ok(r1.db) /\ is_authenticated(req)
                  THEN get_leaderboard_data(r1.db, lb, 1000) ELSE r1,
                  LAMBDA r2 :
                      [db |-> IF Ok(r2.db)
                              THEN get_leaderboard_data(r2.db, lb, 10000).db
                              ELSE r2.db,
                       data |-> r1.data]))

\* LeaderboardViewSet.get_queryset (no user has a student_class)
Leaderboard_get_queryset(d, req) == {lb \in d.leaderboards : lb.is_active}

(***************************************************************************)
(* /api/v1/gamification/leaderboards/                                      *)
(***************************************************************************)
\* GET /leaderboards/{id}/
RetrieveLeaderboard(req, id) ==
    LET op == "leaderboard_retrieve"
        qs == Leaderboard_get_queryset(DB, req)
    IN IF ~IsAdminOrReadOnly_has_permission(req, "GET")
       THEN Reject(op, req, permission_denied(req))
       ELSE IF ~\E lb \in qs : lb.id = id THEN Reject(op, req, 404)
       ELSE \E r \in {LeaderboardSerializer_data(
                          DB, CHOOSE lb \in qs : lb.id = id, req)} :
                /\ Commit(Finish(DB, r.db))
                /\ resp' = Response(op, StatusOf(r.db, 200), r.data)

\* The key LeaderboardViewSet.refresh and the admin action delete.
refresh_cache_key(id) == "leaderboard_" \o ToString(id) \o "_data"

\* POST /leaderboards/{id}/refresh/ : the key is deleted, the row is saved,
\* and the response serializes the leaderboard.
RefreshLeaderboard(req, id) ==
    LET op == "leaderboard_refresh"
        qs == Leaderboard_get_queryset(DB, req)
    IN IF ~IsAdminOrReadOnly_has_permission(req, "POST")
       THEN Reject(op, req, permission_denied(req))
       ELSE IF ~is_staff(req) THEN Reject(op, req, 403)
       ELSE IF ~\E lb \in qs : lb.id = id THEN Reject(op, req, 404)
       ELSE \E r \in {LeaderboardSerializer_data(
                          cache_delete(DB, refresh_cache_key(id)),
                          CHOOSE lb \in qs : lb.id = id, req)} :
                /\ Commit(Finish(DB, r.db))
                /\ resp' = Response(op, StatusOf(r.db, 200), r.data)

\* A cache entry reaches its timeout of 300 seconds.
CacheTimeout ==
    /\ \E e \in cache : cache' = cache \ {e}
    /\ UNCHANGED <<users, lastLogin, profiles, badges, userBadges, ledger,
                   achievements, challenges, submissions, favorites, lessons,
                   quizzes, lessonCompletions, quizAttempts, leaderboards, resp>>

(***************************************************************************)
(* The leaderboards specification: a weekly-points leaderboard and one of  *)
(* another type; staff adjusts points, rows of the ledger are deleted, a   *)
(* student deletes the own profile, and the leaderboards are read and      *)
(* refreshed.                                                              *)
(***************************************************************************)
BoardIds == {1, 2}
BoardPointInputs == {-5, 0, 5}
BoardRequesters == {"s1", "a1", Anonymous}

NewLeaderboard(id, ltype) ==
    [id |-> id, leaderboard_type |-> ltype, is_active |-> TRUE]

InitBoard ==
    /\ users = GamUsers
    /\ lastLogin = {}
    /\ profiles = InitProfiles(GamUsers)
    /\ badges = {}
    /\ userBadges = EmptyBag
    /\ ledger = {}
    /\ achievements = {}
    /\ challenges = {SolvedChallenge}
    /\ submissions = {SolvedSubmission}
    /\ lessons = {}
    /\ quizzes = {}
    /\ lessonCompletions = {}
    /\ quizAttempts = {}
    /\ \E ltype \in LeaderboardTypes \ {"weekly_points"} :
           leaderboards = {NewLeaderboard(1, "weekly_points"),
                           NewLeaderboard(2, ltype)}
    /\ cache = {}
    /\ favorites = {}
    /\ resp = NoResponse

NextBoard ==
    \/ \E req \in BoardRequesters, u \in Learners, points \in BoardPointInputs :
           CreatePointTransaction(req, u, points, "admin_adjustment")
    \/ \E req \in BoardRequesters, id \in LedgerIds : DeletePointTransaction(req, id)
    \/ DeleteProfile("s2", "s2")
    \/ \E req \in BoardRequesters, id \in BoardIds : RetrieveLeaderboard(req, id)
    \/ \E req \in BoardRequesters, id \in BoardIds : RefreshLeaderboard(req, id)
    \/ CacheTimeout

SpecBoard == InitBoard /\ [][NextBoard]_vars

(***************************************************************************)
(* C11.  After a step that adds a row to the ledger, the cache holds no    *)
(* data for any leaderboard that was active when the row was added, so the *)
(* next get_leaderboard_data call on it recomputes the data.               *)
(***************************************************************************)
NewLedgerRow == \E n \in ledger' : \A r \in ledger : r.id # n.id

C11_CacheInvalidatedOnPoints ==
    [][NewLedgerRow
           => \A lb \in leaderboards :
                  lb.is_active
                      => cache_get([cache |-> cache'],
                                   leaderboard_cache_key(lb.id)) = <<>>]_vars

\* A point transaction of s2 was saved by a request answered 500, and the
\* cache still holds data of the weekly leaderboard in which s2 is missing.
C11_StaleAfterCreate ==
    /\ resp.op = "point_transaction_create"
    /\ resp.status = 500
    /\ \E r \in ledger : r.user = "s2" /\ r.points > 0
    /\ \E e \in cache :
           /\ e.key = leaderboard_cache_key(1)
           /\ e.data # <<>>
           /\ \A i \in 1..Len(e.data) : e.data[i].user_id # "s2"

(***************************************************************************)
(* C12.  After a refresh request answered 200, a read of the leaderboard's *)
(* entries is not served from older cached data: the cache holds no data   *)
(* for the leaderboard, or the data computed from the database as it is.   *)
(***************************************************************************)
CacheFresh(d, lb) ==
    \/ cache_get(d, leaderboard_cache_key(lb.id)) = <<>>
    \/ cache_get(d, leaderboard_cache_key(lb.id))
           = generate_leaderboard_data(d, lb, 100).data

C12_RefreshRecomputes ==
    [][\A lb \in leaderboards :
           ((\E req \in BoardRequesters : RefreshLeaderboard(req, lb.id))
            /\ resp'.status = 200) => CacheFresh(DB, lb)']_vars

\* The response of a refresh carries the entries the cache held, which are
\* not those the database gives.
C12_StaleAfterRefresh ==
    /\ resp.op = "leaderboard_refresh"
    /\ resp.status = 200
    /\ resp.body # <<>>
    /\ \E lb \in leaderboards :
           /\ cache_get(DB, leaderboard_cache_key(lb.id)) = resp.body
           /\ ~CacheFresh(DB, lb)

(***************************************************************************)
(* C13.  For every leaderboard type, every limit and every database, the   *)
(* entries _generate_leaderboard_data returns have scores that do not      *)
(* increase down the list and ranks 1, 2, ..., n.                          *)
(***************************************************************************)
LimitInputs == {1, 2, 100}

SortedAndRanked(data) ==
    \A i \in 1..Len(data) :
        /\ data[i].rank = i
        /\ i < Len(data) => data[i].score >= data[i + 1].score

C13_EntriesSortedAndRanked ==
    \A lb \in leaderboards, limit \in LimitInputs :
        SortedAndRanked(generate_leaderboard_data(DB, lb, limit).data)

\* A leaderboard was read and its first entry has a rank other than 1.
C13_RankGap ==
    /\ resp.op = "leaderboard_retrieve"
    /\ resp.status = 200
    /\ resp.body # <<>>
    /\ resp.body[1].rank # 1

(***************************************************************************)
(* Python float arithmetic (IEEE 754 binary64): a float is an exact dyadic  *)
(* number, bits (most significant first) times 2^exp, with at most         *)
(* MantissaBits significant bits after each operation, rounded half to     *)
(* even.  Every intermediate value is exact: quotient bits come from       *)
(* remainders, products from limbs of LimbBits bits.                       *)
(***************************************************************************)
MantissaBits == 53
LimbBits == 18

\* The bits of n in a field of len bits, and the value of a bit sequence.
NatBits(n, len) == [i \in 1..len |-> (n \div 2^(len - i)) % 2]

RECURSIVE BitsNat(_)
BitsNat(b) ==
    IF b = <<>> THEN 0
    ELSE IF Len(b) = 1 THEN b[1]
    ELSE LET h == Len(b) \div 2
         IN BitsNat(SubSeq(b, 1, h)) * 2^(Len(b) - h) + BitsNat(SubSeq(b, h + 1, Len(b)))

\* A bit sequence without its leading zeros.
StripBits(b) ==
    IF \A i \in 1..Len(b) : b[i] = 0 THEN <<0>>
    ELSE SubSeq(b, CHOOSE i \in 1..Len(b) : b[i] = 1 /\ \A j \in 1..(i - 1) : b[j] = 0,
                Len(b))

\* The bit sequence plus one.
IncBits(b) ==
    IF \A i \in 1..Len(b) : b[i] = 1 THEN <<1>> \o [i \in 1..Len(b) |-> 0]
    ELSE LET k == CHOOSE i \in 1..Len(b) : b[i] = 0 /\ \A j \in (i + 1)..Len(b) : b[j] = 1
         IN [i \in 1..Len(b) |-> IF i < k THEN b[i] ELSE IF i = k THEN 1 ELSE 0]

\* Round to MantissaBits significant bits; sticky tells that the exact value
\* lies above bits * 2^exp.
RoundFloat(bits, exp, sticky) ==
    IF Len(bits) <= MantissaBits THEN [bits |-> bits, exp |-> exp]
    ELSE LET keep == SubSeq(bits, 1, MantissaBits)
             guard == bits[MantissaBits + 1]
             rest == sticky \/ \E i \in (MantissaBits + 2)..Len(bits) : bits[i] = 1
             up == guard = 1 /\ (rest \/ keep[MantissaBits] = 1)
         IN [bits |-> IF up THEN IncBits(keep) ELSE keep,
             exp |-> exp + Len(bits) - MantissaBits]

\* 2^i mod b
RECURSIVE Pow2Mod(_, _)
Pow2Mod(i, b) ==
    IF i = 0 THEN 1 % b
    ELSE LET h == Pow2Mod(i \div 2, b)
         IN (h * h * (IF i % 2 = 1 THEN 2 ELSE 1)) % b

\* The bit of weight 2^-i of a / b, for 0 < a < b: long division, whose
\* remainder after i - 1 steps is a * 2^(i-1) mod b.
QuotBit(a, b, i) == IF 2 * ((a * Pow2Mod(i - 1, b)) % b) >= b THEN 1 ELSE 0

\* a / b for integers 0 <= a <= b, 0 < b (int.__truediv__, correctly rounded)
true_div(a, b) ==
    IF a = 0 THEN [bits |-> <<0>>, exp |-> 0]
    ELSE IF a = b THEN [bits |-> <<1>>, exp |-> 0]
    ELSE LET first == CHOOSE i \in 1..31 :
                          QuotBit(a, b, i) = 1 /\ \A j \in 1..(i - 1) : QuotBit(a, b, j) = 0
             last == first + MantissaBits
         IN RoundFloat([j \in 1..(MantissaBits + 1) |-> QuotBit(a, b, first + j - 1)],
                       -last, (a * Pow2Mod(last, b)) % b # 0)

\* x * k for a float x and an integer 0 < k < 2^12 (float.__mul__)
float_mul(x, k) ==
    LET padded == [i \in 1..(3 * LimbBits - Len(x.bits)) |-> 0] \o x.bits
        limb(j) == BitsNat(SubSeq(padded, (j - 1) * LimbBits + 1, j * LimbBits))
        lo == limb(3) * k
        mid == limb(2) * k + lo \div 2^LimbBits
        hi == limb(1) * k + mid \div 2^LimbBits
    IN RoundFloat(StripBits(NatBits(hi, 31) \o NatBits(mid % 2^LimbBits, LimbBits)
                                \o NatBits(lo % 2^LimbBits, LimbBits)),
                  x.exp, FALSE)

\* int(x) for a float 0 <= x < 2^31: truncation
int_of_float(x) ==
    IF x.exp >= 0 THEN BitsNat(x.bits \o [i \in 1..x.exp |-> 0])
    ELSE IF Len(x.bits) + x.exp <= 0 THEN 0
    ELSE BitsNat(SubSeq(x.bits, 1, Len(x.bits) + x.exp))

(***************************************************************************)
(* POST /api/v1/content/quizzes/{id}/take/                                 *)
(* A quiz row of this section carries its questions (the points of each,   *)
(* by position) and max_attempts.  A submitted answer names a question and *)
(* what was sent for it: an answer_id of a correct or a wrong Answer row,  *)
(* an answer_id of no row ("missing"), or neither answer_id nor            *)
(* text_answer ("blank"); a matching text_answer counts like "correct".    *)
(***************************************************************************)
\* content.signals.set_quiz_attempt_completion (pre_save): score is an
\* integer, never None (0 when the attempt is created), so completed_at is
\* set by the first save.
set_quiz_attempt_completion(row) ==
    IF ~row.completed /\ row.score \in Int THEN [row EXCEPT !.completed = TRUE]
    ELSE row

\* content.signals.handle_quiz_completion: TransactionType has no member
\* QUIZ_COMPLETION, and PointTransaction no field related_quiz.
handle_quiz_completion(d, row, created) ==
    IF created /\ row.completed THEN Raise(d, "AttributeError") ELSE d

\* gamification.signals.award_quiz_completion_points: QuizAttempt has no
\* attribute is_completed, so the condition itself raises.
award_quiz_completion_points(d, row, created) == Raise(d, "AttributeError")

\* send(): the receivers of QuizAttempt app by app.
RECURSIVE QuizAttempt_receivers(_, _, _, _)
QuizAttempt_receivers(d, apps, row, created) ==
    IF apps = <<>> \/ ~Ok(d) THEN d
    ELSE LET d1 == IF Head(apps) = "content"
                   THEN handle_quiz_completion(d, row, created)
                   ELSE IF Head(apps) = "gamification"
                        THEN award_quiz_completion_points(d, row, created)
                   ELSE d
         IN QuizAttempt_receivers(d1, Tail(apps), row, created)

\* QuizAttempt.save: is_passed, pre_save, the row, post_save.
QuizAttempt_save(d, row, quiz, created) ==
    LET r == set_quiz_attempt_completion(
                 [row EXCEPT !.is_passed = row.score >= quiz.passing_score])
    IN QuizAttempt_receivers(
           [d EXCEPT !.quizAttempts = {a \in @ : a.id # r.id} \cup {r}],
           INSTALLED_APPS, r, created)

\* The answer loop of QuizTakeSerializer.create: [exc, correct_count,
\* total_points].  A second answer to one question breaks the unique
\* constraint of UserAnswer (attempt, question); an answer_id of no row makes
\* Answer.objects.get raise.
RECURSIVE AnswerLoop(_, _, _)
AnswerLoop(quiz, answers, seen) ==
    IF answers = <<>> THEN [exc |-> "none", correct_count |-> 0, total_points |-> 0]
    ELSE LET a == Head(answers)
             rest == AnswerLoop(quiz, Tail(answers), seen \cup {a.question_id})
         IN IF a.question_id \in seen
            THEN [exc |-> "IntegrityError", correct_count |-> 0, total_points |-> 0]
            ELSE IF a.kind = "missing"
            THEN [exc |-> "DoesNotExist", correct_count |-> 0, total_points |-> 0]
            ELSE IF a.kind = "correct"
            THEN [rest EXCEPT !.correct_count = @ + 1,
                              !.total_points = @ + quiz.questions[a.question_id]]
            ELSE rest

RECURSIVE SumSeq(_)
SumSeq(s) == IF s = <<>> THEN 0 ELSE Head(s) + SumSeq(Tail(s))

\* score = int((total_points / max_points) * 100) if max_points > 0 else 0
quiz_score(earned_points, max_points) ==
    IF max_points > 0
    THEN int_of_float(float_mul(true_div(earned_points, max_points), 100))
    ELSE 0

\* QuizTakeSerializer.validate_answers
validate_answers(quiz, answers) ==
    \A i \in 1..Len(answers) : answers[i].question_id \in 1..Len(quiz.questions)

\* QuizTakeSerializer.create, inside transaction.atomic(): an exception
\* undoes every write of the block and leaves the block.
QuizTakeSerializer_create(d, quiz, user, answers) ==
    LET attempt == [id |-> FreshId(d.quizAttempts), user |-> user, quiz |-> quiz.id,
                    attempt_number |->
                        Cardinality({a \in d.quizAttempts :
                                        a.quiz = quiz.id /\ a.user = user}) + 1,
                    total_questions |-> Len(quiz.questions),
                    score |-> 0, correct_answers |-> 0,
                    is_passed |-> FALSE, completed |-> FALSE]
        d1 == QuizAttempt_save(d, attempt, quiz, TRUE)
        tally == AnswerLoop(quiz, answers, {})
        d2 == IF ~Ok(d1) THEN d1
              ELSE IF tally.exc # "none" THEN Raise(d1, tally.exc)
              ELSE QuizAttempt_save(
                       d1,
                       [attempt EXCEPT
                           !.score = quiz_score(tally.total_points,
                                                SumSeq(quiz.questions)),
                           !.correct_answers = tally.correct_count,
                           !.completed = TRUE],
                       quiz, FALSE)
    IN IF Ok(d2) THEN d2 ELSE Raise(d, d2.exc)

\* QuizViewSet.take
TakeQuiz(req, id, answers, time_taken) ==
    LET op == "quiz_take"
        qs == Quiz_get_queryset(DB, req)
    IN IF ~IsAuthenticatedOrReadOnly_has_permission(req, "POST")
       THEN Reject(op, req, permission_denied(req))
       ELSE IF ~\E q \in qs : q.id = id THEN Reject(op, req, 404)
       ELSE LET quiz == CHOOSE q \in qs : q.id = id
            IN IF Cardinality({a \in quizAttempts : a.quiz = id /\ a.user = req})
                      >= quiz.max_attempts
               THEN Reject(op, req, 400)
               ELSE IF ~validate_answers(quiz, answers) \/ time_taken < 1
               THEN Reject(op, req, 400)
               ELSE \E d \in {QuizTakeSerializer_create(DB, quiz, req, answers)} :
                        /\ WithinBounds(d)
                        /\ Commit(Finish(DB, d))
                        /\ resp' = Response(op, StatusOf(d, 200),
                                            {a \in d.quizAttempts :
                                                a \notin quizAttempts})

(***************************************************************************)
(* Quizzes taken by learners.                                              *)
(***************************************************************************)
QuizIds == 1..MaxContent
QuestionPoints == {<<>>, <<5>>, <<1, 1>>, <<10, 10, 9, 10, 10, 1>>}
AttemptLimits == {1, 3}
PassingScores == {1, 70}
TimeInputs == {0, 30}
QuizUsers == {"s1", "t1"}
QuizRequesters == QuizUsers \cup {Anonymous}

NewQuiz(id, questions, is_published, max_attempts, passing_score) ==
    [id |-> id, author |-> "t1", is_published |-> is_published,
     questions |-> questions, max_attempts |-> max_attempts,
     passing_score |-> passing_score]

\* The answer sheets sent: none, all correct, the first three correct, one
\* wrong, one question answered twice, an unknown answer_id, an unknown
\* question.
AnswerSheets(quiz) ==
    LET n == Len(quiz.questions)
        all(kind) == [i \in 1..n |-> [question_id |-> i, kind |-> kind]]
    IN {<<>>, all("correct"), all("wrong"), all("blank"),
        SubSeq(all("correct"), 1, IF n < 3 THEN n ELSE 3),
        <<[question_id |-> 1, kind |-> "correct"],
          [question_id |-> 1, kind |-> "correct"]>>,
        <<[question_id |-> 1, kind |-> "missing"]>>,
        <<[question_id |-> n + 1, kind |-> "correct"]>>}

InitQuiz ==
    /\ users = QuizUsers
    /\ lastLogin = {}
    /\ profiles = InitProfiles(QuizUsers)
    /\ badges = {}
    /\ userBadges = EmptyBag
    /\ ledger = {}
    /\ achievements = {}
    /\ challenges = {}
    /\ submissions = {}
    /\ lessons = {}
    /\ \E questions \in QuestionPoints, is_published \in BOOLEAN,
          max_attempts \in AttemptLimits, passing_score \in PassingScores :
           quizzes = {NewQuiz(id, questions, is_published, max_attempts,
                              passing_score) : id \in QuizIds}
    /\ lessonCompletions = {}
    /\ quizAttempts = {}
    /\ leaderboards = {}
    /\ cache = {}
    /\ favorites = {}
    /\ resp = NoResponse

NextQuiz ==
    \/ \E req \in QuizRequesters, q \in quizzes, t \in TimeInputs :
           \E answers \in AnswerSheets(q) : TakeQuiz(req, q.id, answers, t)
    \/ \E req \in QuizRequesters, id \in 1..(MaxContent + 1) : RetrieveQuiz(req, id)

SpecQuiz == InitQuiz /\ [][NextQuiz]_vars

(***************************************************************************)
(* C14.  Score of a quiz attempt.                                          *)
(***************************************************************************)
\* The points of the questions answered correctly, and a take request that
\* answers known questions once each with known answers.
RECURSIVE Earned(_, _)
Earned(quiz, answers) ==
    IF answers = <<>> THEN 0
    ELSE (IF Head(answers).kind = "correct"
          THEN quiz.questions[Head(answers).question_id] ELSE 0)
         + Earned(quiz, Tail(answers))
WellFormed(quiz, answers) ==
    /\ validate_answers(quiz, answers)
    /\ \A i, j \in 1..Len(answers) :
           answers[i].question_id = answers[j].question_id => i = j
    /\ \A i \in 1..Len(answers) : answers[i].kind # "missing"
TallyOf(quiz, answers) ==
    IF SumSeq(quiz.questions) = 0 THEN 0
    ELSE (100 * Earned(quiz, answers)) \div SumSeq(quiz.questions)

\* C14: a well-formed take of a visible quiz by an authenticated user stores
\* an attempt whose score is floor(100 * points earned / total points of the
\* quiz's questions), 0 for a quiz without questions, within 0..100, and
\* whose correct_answers does not exceed total_questions.
C14_ScoreIsTally ==
    [][\A req \in QuizUsers, q \in quizzes, t \in TimeInputs :
         \A answers \in AnswerSheets(q) :
           (/\ q \in Quiz_get_queryset(DB, req)
            /\ t >= 1
            /\ WellFormed(q, answers)
            /\ TakeQuiz(req, q.id, answers, t))
           => \E a \in quizAttempts' :
                  /\ a \notin quizAttempts
                  /\ a.quiz = q.id /\ a.user = req
                  /\ a.score = TallyOf(q, answers)
                  /\ a.score \in 0..100
                  /\ a.correct_answers <= a.total_questions]_vars

\* C14: the state the failing input leads to; the take of a published quiz
\* was answered 500 and no attempt is stored.
C14_TakeFails ==
    /\ resp.op = "quiz_take" /\ resp.status = 500
    /\ quizAttempts = {}
    /\ \E q \in quizzes : q.is_published /\ q.questions # <<>>

(***************************************************************************)
(* C15.  Creation of point transactions through the API.                   *)
(***************************************************************************)
\* C15: a create request by a non-staff user adds no ledger row and leaves
\* every profile, and so every total, as it was; a create request adds a
\* row or is answered 201 only when it comes from staff with
\* |points| <= 10000 and, for negative points, the type penalty or
\* admin_adjustment.
C15_OnlyStaffCreate ==
    [][\A req \in Requesters, u \in Learners, p \in PointInputs, t \in TypeInputs :
          (resp'.op = "point_transaction_create" /\ CreatePointTransaction(req, u, p, t))
          => /\ ~is_staff(req) => (ledger' = ledger /\ profiles' = profiles)
             /\ (resp'.status = 201 \/ ledger' # ledger)
                    => /\ is_staff(req)
                       /\ p <= MaxPointValue /\ -p <= MaxPointValue
                       /\ p < 0 => t \in {"penalty", "admin_adjustment"}]_vars

\* C15 witness: staff have created a row with negative points, and a later
\* create request was turned down with the ledger left as it was.
C15_Witness ==
    /\ resp.op = "point_transaction_create"
    /\ resp.status \in {400, 500}
    /\ \E r \in ledger : r.points < 0 /\ r.transaction_type = "admin_adjustment"

(***************************************************************************)
(* POST /api/v1/challenges/challenges/{id}/submit/ and the submitting      *)
(* specification: one challenge of any status, submissions sent through    *)
(* both routes, and a learner who removes their own profile.               *)
(***************************************************************************)
\* ChallengeViewSet.submit: get_object looks the challenge up in the
\* requester's queryset before the serializer validates anything.
SubmitChallenge(req, id, code_ok) ==
    LET op == "challenge_submit"
        row == [id |-> NextSubmissionId(DB), user |-> req,
                challenge |-> id, status |-> "pending", score |-> 0]
    IN IF ~IsAuthenticatedOrReadOnly_has_permission(req, "POST")
       THEN Reject(op, req, permission_denied(req))
       ELSE IF ~\E c \in Challenge_get_queryset(DB, req) : c.id = id
            THEN Reject(op, req, 404)
       ELSE IF ~validate_challenge_id(DB, id) \/ ~code_ok
            THEN Reject(op, req, 400)
       ELSE Answer(op, req, Submission_save(DB, row, TRUE), 201)

InitSubmit ==
    /\ users = SubUsers
    /\ lastLogin = {}
    /\ profiles = InitProfiles(SubUsers)
    /\ badges = {}
    /\ userBadges = EmptyBag
    /\ ledger = {}
    /\ achievements = {}
    /\ \E status \in ChallengeStatusInputs \cup {"archived"} :
           challenges = {[id |-> 1, author |-> "t1", status |-> status,
                          difficulty_level |-> "beginner"]}
    /\ submissions = {}
    /\ lessons = {}
    /\ quizzes = {}
    /\ lessonCompletions = {}
    /\ quizAttempts = {}
    /\ leaderboards = {}
    /\ cache = {}
    /\ favorites = {}
    /\ resp = NoResponse

NextSubmit ==
    \/ \E req \in SubRequesters, id \in 1..(MaxChallenges + 1), code_ok \in BOOLEAN :
           CreateSubmission(req, id, code_ok)
    \/ \E req \in SubRequesters, id \in 1..(MaxChallenges + 1), code_ok \in BOOLEAN :
           SubmitChallenge(req, id, code_ok)
    \/ DeleteProfile("s2", "s2")

SpecSubmit == InitSubmit /\ [][NextSubmit]_vars

(***************************************************************************)
(* C16.  Submissions go to published challenges only.                      *)
(***************************************************************************)
\* C16: a submit by an authenticated user with non-empty code to a published
\* challenge is answered 201 and adds exactly one submission, owned by the
\* requester, in status pending; a submit to a draft, archived or
\* non-existent challenge, or with blank code, is answered 400 and adds no
\* submission.
C16_SubmitToPublishedOnly ==
    [][\A req \in SubUsers, id \in 1..(MaxChallenges + 1), code_ok \in BOOLEAN :
          (/\ resp'.op \in {"submission_create", "challenge_submit"}
           /\ (CreateSubmission(req, id, code_ok) \/ SubmitChallenge(req, id, code_ok)))
          => IF validate_challenge_id(DB, id) /\ code_ok
             THEN /\ resp'.status = 201
                  /\ \E n \in submissions' :
                         /\ n \notin submissions
                         /\ submissions' = submissions \cup {n}
                         /\ n.user = req /\ n.challenge = id
                         /\ n.status = "pending"
             ELSE resp'.status = 400 /\ submissions' = submissions]_vars

\* C16: the state the failing input leads to; a student's submit to the
\* draft challenge was answered 404.
C16_DraftNotFound ==
    /\ resp.op = "challenge_submit" /\ resp.status = 404
    /\ \E c \in challenges : c.id = 1 /\ c.status = "draft"

(***************************************************************************)
(* The solving specification: the submissions specification plus the admin *)
(* site, whose add form of Submission offers the status field, so a row    *)
(* can be created already accepted.                                        *)
(***************************************************************************)
\* SubmissionAdmin add view: ModelAdmin.save_model calls obj.save(); 302 on
\* success.
AdminAddSubmission(u, challenge_id, status) ==
    LET op == "admin_submission_add"
        row == [id |-> NextSubmissionId(DB), user |-> u,
                challenge |-> challenge_id, status |-> status, score |-> 0]
    IN /\ \E c \in challenges : c.id = challenge_id
       /\ Answer(op, "a1", Submission_save(DB, row, TRUE), 302)

NextSolve ==
    \/ NextSub
    \/ \E u \in Learners, st \in SubmissionStatusInputs : AdminAddSubmission(u, 1, st)

SpecSolve == InitSub /\ [][NextSolve]_vars

(***************************************************************************)
(* C17.  Challenge points once per user and challenge.                     *)
(***************************************************************************)
ChallengeAwards(u, c) ==
    {r \in ledger : /\ r.user = u
                    /\ r.transaction_type = "challenge_solved"
                    /\ r.reference_id = ToString(c)}

lesson_difficulty_bonus == [beginner |-> 0, intermediate |-> 5, advanced |-> 10,
                            expert |-> 15]

\* content.signals.award_lesson_completion_points: TransactionType has no
\* member LESSON_COMPLETION (and PointTransaction no field related_lesson), so
\* building the arguments of the create call raises.
content_award_lesson_completion_points(d, row, created) ==
    IF created THEN Raise(d, "AttributeError") ELSE d

\* gamification.signals.award_lesson_completion_points
award_lesson_completion_points(d, row, created) ==
    LET lesson == CHOOSE l \in d.lessons : l.id = row.lesson
        d1 == PointTransaction_create(d, row.user,
                  10 + lesson_difficulty_bonus[lesson.difficulty_level],
                  "lesson_completed", ToString(lesson.id))
    IN IF ~created THEN d
       ELSE IF ~Ok(d1) THEN d1
       ELSE IF \E a \in d1.achievements :
                   a.user = row.user /\ a.atype = "first_lesson"
            THEN d1
       ELSE Achievement_create(d1, row.user, "first_lesson", 25,
                               ToString(lesson.id))

\* send(): the receivers of LessonCompletion app by app.
RECURSIVE LessonCompletion_receivers(_, _, _, _)
LessonCompletion_receivers(d, apps, row, created) ==
    IF apps = <<>> \/ ~Ok(d) THEN d
    ELSE LET d1 == IF Head(apps) = "content"
                   THEN content_award_lesson_completion_points(d, row, created)
                   ELSE IF Head(apps) = "gamification"
                        THEN award_lesson_completion_points(d, row, created)
                   ELSE d
         IN LessonCompletion_receivers(d1, Tail(apps), row, created)

\* LessonCompletion.objects.get_or_create: the create runs inside
\* transaction.atomic(), so an exception of a receiver undoes the insert and
\* every row the receivers wrote, and is raised again.
LessonCompletion_get_or_create(d, u, lesson_id) ==
    LET row == [user |-> u, lesson |-> lesson_id]
        d1 == LessonCompletion_receivers(
                  [d EXCEPT !.lessonCompletions = @ \cup {row}],
                  INSTALLED_APPS, row, TRUE)
    IN IF row \in d.lessonCompletions THEN d
       ELSE IF Ok(d1) THEN d1
       ELSE [d EXCEPT !.exc = d1.exc, !.cache = d1.cache]

\* LessonViewSet.complete
CompleteLesson(req, id) ==
    LET op == "lesson_complete"
    IN IF ~IsAuthenticatedOrReadOnly_has_permission(req, "POST")
       THEN Reject(op, req, permission_denied(req))
       ELSE IF ~\E l \in Lesson_get_queryset(DB, req) : l.id = id
            THEN Reject(op, req, 404)
       ELSE Answer(op, req, LessonCompletion_get_or_create(DB, req, id), 200)

(***************************************************************************)
(* The lessons specification: one lesson, completed by learners, one of    *)
(* whom may have removed their profile.                                    *)
(***************************************************************************)
LessonUsers == {"s1", "s2", "t1"}
LessonRequesters == LessonUsers \cup {Anonymous}

InitLesson ==
    /\ users = LessonUsers
    /\ lastLogin = {}
    /\ profiles = InitProfiles(LessonUsers)
    /\ badges = {}
    /\ userBadges = EmptyBag
    /\ ledger = {}
    /\ achievements = {}
    /\ challenges = {}
    /\ submissions = {}
    /\ \E is_published \in BOOLEAN, level \in DOMAIN lesson_difficulty_bonus :
           lessons = {[id |-> id, author |-> "t1", is_published |-> is_published,
                       difficulty_level |-> level] : id \in ContentIds}
    /\ quizzes = {}
    /\ lessonCompletions = {}
    /\ quizAttempts = {}
    /\ leaderboards = {}
    /\ cache = {}
    /\ favorites = {}
    /\ resp = NoResponse

NextLesson ==
    \/ \E req \in LessonRequesters, id \in 1..(MaxContent + 1) : CompleteLesson(req, id)
    \/ \E req \in LessonRequesters, id \in 1..(MaxContent + 1) : RetrieveLesson(req, id)
    \/ \E u \in Learners : DeleteProfile(u, u)

SpecLesson == InitLesson /\ [][NextLesson]_vars

(***************************************************************************)
(* C18.  Completing a lesson.                                              *)
(***************************************************************************)
CompletionsOf(u, l) == {c \in lessonCompletions : c.user = u /\ c.lesson = l}
LessonAwards(u, l) ==
    {r \in ledger : /\ r.user = u
                    /\ r.transaction_type = "lesson_completed"
                    /\ r.reference_id = ToString(l)}

\* C18: after an authenticated user's complete request for a lesson they can
\* see, however often it is repeated, there is exactly one LessonCompletion
\* for the user and the lesson and exactly one lesson-completion point
\* transaction for them.
C18_CompleteOnce ==
    [][\A req \in LessonUsers, l \in lessons :
          (/\ resp'.op = "lesson_complete"
           /\ l \in Lesson_get_queryset(DB, req)
           /\ CompleteLesson(req, l.id))
          => /\ Cardinality(CompletionsOf(req, l.id)') = 1
             /\ Cardinality(LessonAwards(req, l.id)') = 1]_vars

\* C18: the state the failing input leads to; the complete request for the
\* published lesson was answered 500 and neither a completion nor a point
\* transaction is stored.
C18_NothingStored ==
    /\ resp.op = "lesson_complete" /\ resp.status = 500
    /\ \E l \in lessons : l.is_published
    /\ lessonCompletions = {} /\ ledger = {}

(***************************************************************************)
(* The cascade specification: PointTransaction.objects.create called as    *)
(* the signal handlers call it, outside a request, with several badges in  *)
(* the catalogue, some of them inactive.                                   *)
(***************************************************************************)
MaxCascadeLedger == 4
CascadeKeys == {"newcomer", "perfectionist", "point_collector", "streak_warrior"}
CascadeInputs == {-5, 5, 100}

\* PointTransaction.objects.create(user=u, points=p, transaction_type=...)
PointTransactionObjectsCreate(u, p) ==
    /\ u \in users
    /\ \E d \in {PointTransaction_create(DB, u, p, "daily_login", "")} :
           /\ Cardinality(d.ledger) <= MaxCascadeLedger
           /\ Commit(Finish(DB, d))
           /\ resp' = Response("PointTransaction.objects.create", d.exc, {})

InitCascade ==
    /\ users = GamUsers
    /\ lastLogin = {}
    /\ profiles = InitProfiles(GamUsers)
    /\ \E keys \in SUBSET CascadeKeys, active \in SUBSET CascadeKeys :
           badges = {[key |-> k, is_active |-> k \in active] : k \in keys}
    /\ userBadges = EmptyBag
    /\ ledger = {}
    /\ achievements = {}
    /\ challenges = {}
    /\ submissions = {}
    /\ lessons = {}
    /\ quizzes = {}
    /\ lessonCompletions = {}
    /\ quizAttempts = {}
    /\ leaderboards = {}
    /\ cache = {}
    /\ favorites = {}
    /\ resp = NoResponse

NextCascade ==
    \E u \in Learners, p \in CascadeInputs : PointTransactionObjectsCreate(u, p)

SpecCascade == InitCascade /\ [][NextCascade]_vars

(***************************************************************************)
(* C19.  The cascade of one new point transaction.                         *)
(***************************************************************************)
\* The active badges the user does not hold.
MissingBadges(u) ==
    {b \in badges : b.is_active /\ CopiesIn(UserBadgeRow(u, b.key), userBadges) = 0}

\* C19: the cascade started by saving one new PointTransaction terminates
\* after creating finitely many records: besides the transaction itself, at
\* most one UserBadge and one bonus transaction for each active badge the
\* user does not hold yet, and at most one achievement for each milestone.
C19_CascadeTerminates ==
    \A u \in Learners, p \in CascadeInputs :
        \A d \in {PointTransaction_create(DB, u, p, "daily_login", "")} :
            /\ Cardinality(d.ledger)
                   <= Cardinality(ledger) + 1 + Cardinality(MissingBadges(u))
            /\ BagCardinality(d.userBadges)
                   <= BagCardinality(userBadges) + Cardinality(MissingBadges(u))
            /\ Cardinality(d.achievements)
                   <= Cardinality(achievements) + Len(milestones)

\* C19: one create has awarded two badges to a learner, each with its bonus
\* transaction.
C19_Witness ==
    /\ resp.op = "PointTransaction.objects.create"
    /\ \E u \in Learners :
           /\ Cardinality({b \in badges : UserBadge_exists(DB, u, b.key)}) = 2
           /\ Cardinality({r \in RowsOf(u) : r.transaction_type = "badge_earned"}) = 2
           /\ Cardinality({r \in RowsOf(u) : r.transaction_type = "daily_login"}) = 1

(***************************************************************************)
(* C20.  Point milestones.                                                 *)
(***************************************************************************)
MilestoneAchievements(u, m) ==
    {a \in achievements : /\ a.user = u
                          /\ a.atype = "points_milestone"
                          /\ a.ref = ToString(m)}

\* C20: each point milestone is awarded exactly once, at the transaction that
\* reaches it: when a newly saved positive PointTransaction brings a user's
\* points to or above a milestone, the milestone's achievement exists when
\* the save returns, and no user has two achievements for one milestone.
C20_MilestoneAwardedOnce ==
    [][\A u \in Learners, i \in DOMAIN milestones :
          /\ Cardinality(MilestoneAchievements(u, milestones[i])') <= 1
          /\ (/\ resp'.op = "PointTransaction.objects.create"
              /\ resp'.status = "none"
              /\ \E r \in ledger' \ ledger : r.user = u /\ r.points > 0
              /\ SumPoints(RowsOf(u)') >= milestones[i])
             => Cardinality(MilestoneAchievements(u, milestones[i])') = 1]_vars

\* C20: the state the failing input leads to; the create returned, the
\* learner's transactions sum to the first milestone, and the learner has no
\* achievement for it.
C20_MilestoneMissed ==
    /\ resp.op = "PointTransaction.objects.create"
    /\ resp.status = "none"
    /\ \E u \in Learners :
           /\ SumPoints(RowsOf(u)) >= milestones[1]
           /\ \E r \in RowsOf(u) : r.points = 100
           /\ HasProfile(DB, u)
           /\ MilestoneAchievements(u, milestones[1]) = {}

(***************************************************************************)
(* C21.  Points for a quiz attempt.                                        *)
(***************************************************************************)
\* Quiz.points_reward at its default, and the bonus for passing.
quiz_points_reward == 20
quiz_passed_points == 10

\* handle_quiz_completion: bonus_multiplier, in tenths (1.5, 1.2 or 1.0, and
\* 0.1 more for a first attempt).
bonus_multiplier(score, attempt_number) ==
    (IF score >= 90 THEN 15 ELSE IF score >= 80 THEN 12 ELSE 10)
        + (IF attempt_number = 1 THEN 1 ELSE 0)

\* handle_quiz_completion: total_points = int(base_points * bonus_multiplier);
\* for the base of 20 the six products are whole numbers.
quiz_completion_points(score, attempt_number) ==
    (quiz_points_reward * bonus_multiplier(score, attempt_number)) \div 10

AttemptsOf(u, q) == {a \in quizAttempts : a.quiz = q.id /\ a.user = u}

\* C21: a quiz taken through the take action is awarded points by its final
\* score: the new completion transaction has the 1.5x multiplier exactly when
\* the final score is at least 90 and the 1.2x multiplier exactly when it is
\* 80..89, and the 10 points for passing are given exactly when the final
\* score reaches the quiz's passing_score.
C21_PointsFollowFinalScore ==
    [][\A req \in QuizUsers, q \in quizzes, t \in TimeInputs :
         \A answers \in AnswerSheets(q) :
           (/\ resp'.op = "quiz_take"
            /\ q \in Quiz_get_queryset(DB, req)
            /\ Cardinality(AttemptsOf(req, q)) < q.max_attempts
            /\ t >= 1
            /\ WellFormed(q, answers)
            /\ TakeQuiz(req, q.id, answers, t))
           => LET final == quiz_score(Earned(q, answers), SumSeq(q.questions))
                  new == {r \in ledger' : r \notin ledger /\ r.user = req}
              IN /\ \E r \in new :
                        r.points = quiz_completion_points(
                                       final, Cardinality(AttemptsOf(req, q)) + 1)
                 /\ (\E r \in new : /\ r.points = quiz_passed_points
                                    /\ r.transaction_type = "quiz_passed")
                        <=> final >= q.passing_score]_vars

\* C21: the state the failing input leads to; the take of a published quiz
\* that any correct answer passes was answered 500 and no points are in the
\* ledger.
C21_NoPointsAwarded ==
    /\ resp.op = "quiz_take" /\ resp.status = 500
    /\ ledger = {}
    /\ \E q \in quizzes : /\ q.is_published
                          /\ SumSeq(q.questions) > 0
                          /\ q.passing_score = 1

(***************************************************************************)
(* ChallengeFavorite and the favorite action of ChallengeViewSet.          *)
(***************************************************************************)
FavoriteRows(d, u, c) == {f \in d.favorites : f.user = u /\ f.challenge = c}

\* ChallengeFavorite.Meta.unique_together = ['user', 'challenge']
ChallengeFavorite_unique(d, u, c) == FavoriteRows(d, u, c) = {}

\* The challenge_id of a favorite saved without a challenge (NULL).
NullId == 0

\* ChallengeFavorite.objects.create; challenge is a NOT NULL column.  The
\* model has no signal receivers.
ChallengeFavorite_create(d, u, c) ==
    IF c = NullId \/ ~ChallengeFavorite_unique(d, u, c) THEN Raise(d, "IntegrityError")
    ELSE [d EXCEPT !.favorites =
             @ \cup {[id |-> FreshId(d.favorites), user |-> u, challenge |-> c]}]

\* ChallengeFavorite.objects.get_or_create(user=..., challenge=...):
\* [d, created, favorite]
ChallengeFavorite_get_or_create(d, u, c) ==
    LET rows == FavoriteRows(d, u, c)
    IN IF Cardinality(rows) > 1
       THEN [d |-> Raise(d, "MultipleObjectsReturned"), created |-> FALSE,
             favorite |-> None]
       ELSE IF rows # {}
       THEN [d |-> d, created |-> FALSE, favorite |-> CHOOSE f \in rows : TRUE]
       ELSE LET d1 == ChallengeFavorite_create(d, u, c)
            IN [d |-> d1, created |-> Ok(d1),
                favorite |-> IF Ok(d1) THEN CHOOSE f \in FavoriteRows(d1, u, c) : TRUE
                             ELSE None]

\* A delete that removes nothing.
ChallengeFavorite_delete_skipped(d, favorite) == d

\* favorite.delete()
ChallengeFavorite_delete(d, favorite) ==
    [d EXCEPT !.favorites = {f \in @ : f.id # favorite.id}]

\* The body of ChallengeViewSet.favorite after get_object:
\* [d, status, is_favorited]
favorite(d, req, c) ==
    LET got == ChallengeFavorite_get_or_create(d, req, c)
    IN IF ~is_authenticated(req) THEN [d |-> d, status |-> 401, is_favorited |-> None]
       ELSE IF ~Ok(got.d) THEN [d |-> got.d, status |-> 500, is_favorited |-> None]
       ELSE IF got.created THEN [d |-> got.d, status |-> 200, is_favorited |-> TRUE]
       ELSE [d |-> ChallengeFavorite_delete(got.d, got.favorite), status |-> 200,
             is_favorited |-> FALSE]

\* POST /challenges/{id}/favorite/
FavoriteChallenge(req, id) ==
    LET op == "challenge_favorite"
    IN IF ~IsAuthenticatedOrReadOnly_has_permission(req, "POST")
       THEN Reject(op, req, permission_denied(req))
       ELSE IF ~\E c \in Challenge_get_queryset(DB, req) : c.id = id
            THEN Reject(op, req, 404)
       ELSE \E r \in {favorite(DB, req, id)} :
                /\ WithinBounds(r.d)
                /\ Commit(Finish(DB, r.d))
                /\ resp' = Response(op, r.status,
                                    IF r.status = 200
                                    THEN {[is_favorited |-> r.is_favorited]} ELSE {})

\* ChallengeFavoriteViewSet.get_queryset
ChallengeFavorite_get_queryset(d, req) == {f \in d.favorites : f.user = req}

\* POST /favorites/ : the serializer's only model fields are read-only, so
\* perform_create saves a row with the user and without a challenge.
CreateFavorite(req) ==
    LET op == "favorite_create"
    IN IF ~IsAuthenticated_has_permission(req)
       THEN Reject(op, req, permission_denied(req))
       ELSE Answer(op, req, ChallengeFavorite_create(DB, req, NullId), 201)

\* DELETE /favorites/{id}/
DeleteFavorite(req, id) ==
    LET op == "favorite_delete"
        qs == IF is_authenticated(req) THEN ChallengeFavorite_get_queryset(DB, req)
              ELSE {}
    IN IF ~IsAuthenticated_has_permission(req)
       THEN Reject(op, req, permission_denied(req))
       ELSE IF ~\E f \in qs : f.id = id THEN Reject(op, req, 404)
       ELSE LET obj == CHOOSE f \in qs : f.id = id
            IN IF ~IsOwnerOrReadOnly_has_object_permission(req, "DELETE", obj)
               THEN Reject(op, req, permission_denied(req))
               ELSE Answer(op, req, ChallengeFavorite_delete(DB, obj), 204)

(***************************************************************************)
(* The favorites specification: one challenge, draft or published, written *)
(* by teacher t1; learners and the teacher mark and unmark it through the  *)
(* favorite action and through /favorites/.                                *)
(***************************************************************************)
FavoriteUsers == {"s1", "s2", "t1"}
FavoriteRequesters == FavoriteUsers \cup {Anonymous}
FavoriteIds == 1..(MaxChallenges * Cardinality(FavoriteUsers))

InitFavorite ==
    /\ users = FavoriteUsers
    /\ lastLogin = {}
    /\ profiles = InitProfiles(FavoriteUsers)
    /\ badges = {}
    /\ userBadges = EmptyBag
    /\ ledger = {}
    /\ achievements = {}
    /\ \E status \in ChallengeStatusInputs :
           challenges = {[id |-> 1, author |-> "t1", status |-> status,
                          difficulty_level |-> "beginner"]}
    /\ submissions = {}
    /\ favorites = {}
    /\ lessons = {}
    /\ quizzes = {}
    /\ lessonCompletions = {}
    /\ quizAttempts = {}
    /\ leaderboards = {}
    /\ cache = {}
    /\ resp = NoResponse

NextFavorite ==
    \/ \E req \in FavoriteRequesters, id \in 1..(MaxChallenges + 1) :
           FavoriteChallenge(req, id)
    \/ \E req \in FavoriteRequesters : CreateFavorite(req)
    \/ \E req \in FavoriteRequesters, id \in FavoriteIds : DeleteFavorite(req, id)

SpecFavorite == InitFavorite /\ [][NextFavorite]_vars

(***************************************************************************)
(* C22.  The favorite action as a toggle.                                  *)
(***************************************************************************)
IsFavorited(d, u, c) == FavoriteRows(d, u, c) # {}
FavoritePairs(d) == {<<f.user, f.challenge>> : f \in d.favorites}

\* What one favorite request of req for challenge c must do: flip whether
\* the favorite exists, report the new state in is_favorited, and be undone
\* by a second request.
Toggles(req, c) ==
    /\ IsFavorited(DB, req, c)' = ~IsFavorited(DB, req, c)
    /\ resp'.status = 200
    /\ resp'.body = {[is_favorited |-> IsFavorited(DB, req, c)']}
    /\ FavoritePairs(favorite(favorite(DB, req, c).d, req, c).d) = FavoritePairs(DB)

\* C22: the favorite action is a toggle: for any authenticated user and
\* challenge, one request flips whether a ChallengeFavorite exists and
\* reports the resulting state in is_favorited, two consecutive requests
\* restore the original state, and there is at most one ChallengeFavorite
\* per user and challenge in every reachable state.
C22_FavoriteToggles ==
    [][/\ \A u \in FavoriteUsers, c \in challenges' :
              Cardinality({f \in favorites' : f.user = u /\ f.challenge = c.id}) <= 1
       /\ \A req \in FavoriteUsers : \A c \in challenges :
              (resp'.op = "challenge_favorite" /\ FavoriteChallenge(req, c.id))
              => Toggles(req, c.id)]_vars

\* C22, for the challenges the requester can see: the favorite action is a
\* toggle for any authenticated user and any challenge of the user's
\* queryset (every challenge for teachers and admins, the published ones for
\* students), and there is at most one ChallengeFavorite per user and
\* challenge in every reachable state.
C22_FavoriteTogglesVisible ==
    [][/\ \A u \in FavoriteUsers, c \in challenges' :
              Cardinality({f \in favorites' : f.user = u /\ f.challenge = c.id}) <= 1
       /\ \A req \in FavoriteUsers : \A c \in Challenge_get_queryset(DB, req) :
              (resp'.op = "challenge_favorite" /\ FavoriteChallenge(req, c.id))
              => Toggles(req, c.id)]_vars

\* C22: a favorite was added and removed again by the action.
C22_Witness ==
    /\ resp.op = "challenge_favorite"
    /\ resp.status = 200
    /\ resp.body = {[is_favorited |-> FALSE]}
    /\ challenges # {}
    /\ favorites = {}

=============================================================================
